---- MODULE Spec2Model ----
(***************************************************************************)
(* Expense tracker backend (backend/server.js, backend/models.js,          *)
(* backend/middleware.js): the chat entry points that turn a text message  *)
(* into a Transaction, and the streak / achievement bookkeeping on the     *)
(* User document.                                                          *)
(*                                                                         *)
(* Text is modelled as a sequence of UTF-16 code units (naturals), so that *)
(* the regular expressions, String.includes, String.replace, trim and      *)
(* toLowerCase of the handlers are computed character by character.        *)
(***************************************************************************)
EXTENDS Integers, Sequences, FiniteSets, TLC

\* null in a field of type String; no string of the model is empty where null
\* can occur (a date string has ten characters)
null == <<>>

-----------------------------------------------------------------------------
(* Characters and strings *)

\* \d
IsDigit(c) == c \in 48..57

\* \s, restricted to the ASCII white space characters
IsSpace(c) == c \in {9, 10, 11, 12, 13, 32}

\* the characters '.' does not match
IsLineTerminator(c) == c \in {10, 13}

SPACE == 32
PLUS == 43
COMMA == 44
HYPHEN == 45
DOT == 46
ZERO == 48

\* String.prototype.toLowerCase, one code unit: only A-Z have a lower case
\* among the characters of the model
ToLowerChar(c) == IF c \in 65..90 THEN c + 32 ELSE c

toLowerCase(s) == [i \in 1..Len(s) |-> ToLowerChar(s[i])]

\* s.substring(from - 1, to), 1-based and inclusive, empty when from > to
Slice(s, from, to) == [i \in 1..(IF to >= from THEN to - from + 1 ELSE 0) |-> s[from + i - 1]]

\* String.prototype.trim
trim(s) ==
  LET nonSpace == {i \in 1..Len(s) : ~IsSpace(s[i])}
  IN  IF nonSpace = {} THEN <<>>
      ELSE Slice(s, CHOOSE i \in nonSpace : \A j \in nonSpace : i <= j,
                    CHOOSE i \in nonSpace : \A j \in nonSpace : i >= j)

\* k occurs in s at position p
OccursAt(s, p, k) ==
  /\ p >= 1
  /\ p + Len(k) - 1 <= Len(s)
  /\ \A j \in 1..Len(k) : s[p + j - 1] = k[j]

\* String.prototype.includes
includes(s, k) == \E p \in 1..(Len(s) + 1) : OccursAt(s, p, k)

\* s.replace(new RegExp(k, 'g'), '') for a keyword k without metacharacters:
\* every occurrence of k is removed, scanning from the left
RECURSIVE RemoveAllFrom(_, _, _)
RemoveAllFrom(s, k, p) ==
  IF p > Len(s) THEN <<>>
  ELSE IF OccursAt(s, p, k) THEN RemoveAllFrom(s, k, p + Len(k))
  ELSE <<s[p]>> \o RemoveAllFrom(s, k, p + 1)

RemoveAll(s, k) == RemoveAllFrom(s, k, 1)

\* the elements of a sequence
Range(s) == {s[i] : i \in 1..Len(s)}

-----------------------------------------------------------------------------
(* The strings of the source *)

\* models.js defaultCategories.expense: the names, as sequences of UTF-16 code units
defaultExpenseNames ==
  << <<3629, 3634, 3627, 3634, 3619>>,   \* 1: ahan (food)
     <<3594, 3634, 3609, 3617, 47, 3585, 3634, 3649, 3615>>,   \* 2: chanom/kafae (milk tea/coffee)
     <<3648, 3604, 3621, 3636, 3648, 3623, 3629, 3619, 3637, 3656>>,   \* 3: delivery
     <<3594, 3657, 3629, 3611, 3611, 3636, 3657, 3591>>,   \* 4: shopping
     <<3586, 3629, 3591, 3629, 3629, 3609, 3652, 3621, 3609, 3660>>,   \* 5: khong online (online goods)
     <<83, 107, 105, 110, 99, 97, 114, 101>>,   \* 6: 'Skincare'
     <<3610, 3633, 3609, 3648, 3607, 3636, 3591>>,   \* 7: banthoeng (entertainment)
     <<3648, 3585, 3617>>,   \* 8: game
     <<3626, 3605, 3619, 3637, 3617, 3617, 3636, 3656, 3591>>,   \* 9: streaming
     <<3588, 3629, 3609, 3648, 3626, 3636, 3619, 3660, 3605>>,   \* 10: concert
     <<3648, 3604, 3636, 3609, 3607, 3634, 3591>>,   \* 11: doenthang (travel)
     <<71, 114, 97, 98, 47, 66, 111, 108, 116>>,   \* 12: 'Grab/Bolt'
     <<3588, 3656, 3634, 3648, 3609, 3655, 3605, 47, 3650, 3607, 3619>>,   \* 13: kha net/tho (internet/phone)
     <<3588, 3656, 3634, 3610, 3657, 3634, 3609>>,   \* 14: kha ban (rent)
     <<3588, 3656, 3634, 3609, 3657, 3635, 45, 3652, 3615>>,   \* 15: kha nam-fai (water, electricity)
     <<3626, 3640, 3586, 3616, 3634, 3614>>,   \* 16: sukkhaphap (health)
     <<3585, 3634, 3619, 3624, 3638, 3585, 3625, 3634>>,   \* 17: kansueksa (education)
     <<3626, 3633, 3605, 3623, 3660, 3648, 3621, 3637, 3657, 3618, 3591>>,   \* 18: satliang (pets)
     <<77, 101, 114, 99, 104, 47, 73, 100, 111, 108>>,   \* 19: 'Merch/Idol'
     <<3629, 3639, 3656, 3609, 3654>> >>   \* 20: uen-uen (others)

\* models.js defaultCategories.income
defaultIncomeNames ==
  << <<3648, 3591, 3636, 3609, 3648, 3604, 3639, 3629, 3609>>,   \* 1: ngoenduean (salary)
     <<3650, 3610, 3609, 3633, 3626>>,   \* 2: bonus
     <<70, 114, 101, 101, 108, 97, 110, 99, 101>>,   \* 3: 'Freelance'
     <<3586, 3634, 3618, 3586, 3629, 3591>>,   \* 4: khai khong (selling goods)
     <<3621, 3591, 3607, 3640, 3609, 47, 67, 114, 121, 112, 116, 111>>,   \* 5: longthun/Crypto (investment)
     <<3619, 3634, 3618, 3652, 3604, 3657, 3648, 3626, 3619, 3636, 3617>>,   \* 6: raidai soem (side income)
     <<3648, 3591, 3636, 3609, 3614, 3656, 3629, 3649, 3617, 3656>>,   \* 7: ngoen pho mae (money from parents)
     <<3629, 3639, 3656, 3609, 3654>> >>   \* 8: uen-uen (others)

\* handleEvent expenseKeywords
expenseKeywords ==
  << <<3592, 3656, 3634, 3618>>,   \* 1: chai (pay)
     <<3595, 3639, 3657, 3629>>,   \* 2: sue (buy)
     <<3588, 3656, 3634>>,   \* 3: kha (fee)
     <<3585, 3636, 3609>>,   \* 4: kin (eat)
     <<3604, 3639, 3656, 3617>>,   \* 5: duem (drink)
     <<3648, 3626, 3637, 3618>>,   \* 6: sia (lose)
     <<3627, 3617, 3604>>,   \* 7: mot (used up)
     <<3648, 3605, 3636, 3617>>,   \* 8: toem (top up)
     <<3650, 3629, 3609>>,   \* 9: on (transfer)
     <<3592, 3629, 3591>> >>   \* 10: chong (book)

\* handleEvent incomeKeywords
incomeKeywords ==
  << <<3619, 3633, 3610>>,   \* 1: rap (receive)
     <<3652, 3604, 3657>>,   \* 2: dai (get)
     <<3648, 3591, 3636, 3609, 3648, 3604, 3639, 3629, 3609>>,   \* 3: ngoenduean (salary)
     <<3650, 3610, 3609, 3633, 3626>>,   \* 4: bonus
     <<3586, 3634, 3618>>,   \* 5: khai (sell)
     <<3627, 3634, 3619, 3634, 3618, 3652, 3604, 3657>>,   \* 6: ha raidai (earn)
     <<43>> >>   \* 7: '+'

\* handleEvent: the alternatives of /^(kha|ngoen|khong)/
commonPrefixes ==
  << <<3588, 3656, 3634>>,   \* 1: kha (fee)
     <<3648, 3591, 3636, 3609>>,   \* 2: ngoen (money)
     <<3586, 3629, 3591>> >>   \* 3: khong (goods)

\* handleEvent: the names of the fallback category
fallbackNames ==
  << <<3629, 3639, 3656, 3609, 3654>>,   \* 1: uen-uen (others)
     <<79, 116, 104, 101, 114, 115>>,   \* 2: 'Others'
     <<71, 101, 110, 101, 114, 97, 108>> >>   \* 3: 'General'

\* handleEvent: the summary command
handleEventCommands ==
  << <<3626, 3619, 3640, 3611>>,   \* 1: sarup (summary)
     <<115, 117, 109, 109, 97, 114, 121>> >>   \* 2: 'summary'

\* app.post('/webhook') loop: the literal command phrases, in the order of their tests
webhookCommands ==
  << <<3619, 3634, 3618, 3619, 3633, 3610>>,   \* 1: rairap (income)
     <<105, 110, 99, 111, 109, 101>>,   \* 2: 'income'
     <<43>>,   \* 3: '+'
     <<3623, 3636, 3608, 3637, 3610, 3633, 3609, 3607, 3638, 3585, 3619, 3634, 3618, 3619, 3633, 3610>>,   \* 4: how to record income
     <<3619, 3634, 3618, 3592, 3656, 3634, 3618>>,   \* 5: raichai (expense)
     <<101, 120, 112, 101, 110, 115, 101>>,   \* 6: 'expense'
     <<45>>,   \* 7: '-'
     <<3623, 3636, 3608, 3637, 3610, 3633, 3609, 3607, 3638, 3585, 3619, 3634, 3618, 3592, 3656, 3634, 3618>>,   \* 8: how to record expense
     <<3611, 3619, 3632, 3592, 3635>>,   \* 9: pracham (recurring)
     <<114, 101, 99, 117, 114, 114, 105, 110, 103>>,   \* 10: 'recurring'
     <<3591, 3610>>,   \* 11: ngop (budget)
     <<98, 117, 100, 103, 101, 116>>,   \* 12: 'budget'
     <<3591, 3610, 3611, 3619, 3632, 3617, 3634, 3603>>,   \* 13: ngoppraman (budget)
     <<3626, 3606, 3634, 3609, 3632, 3591, 3610>>,   \* 14: sathana ngop (budget status)
     <<3627, 3617, 3623, 3604>>,   \* 15: muat (category)
     <<3626, 3619, 3640, 3611>>,   \* 16: sarup (summary)
     <<3626, 3619, 3640, 3611, 3648, 3604, 3639, 3629, 3609>>,   \* 17: sarup duean (month summary)
     <<3626, 3619, 3640, 3611, 3623, 3633, 3609>>,   \* 18: sarup wan (day summary)
     <<3623, 3633, 3609, 3609, 3637, 3657>>,   \* 19: wanni (today)
     <<3604, 3641, 3627, 3617, 3623, 3604>>,   \* 20: du muat (view categories)
     <<3627, 3617, 3623, 3604, 3627, 3617, 3641, 3656>>,   \* 21: muatmu (categories)
     <<3648, 3627, 3621, 3639, 3629, 3648, 3607, 3656, 3634, 3652, 3627, 3619, 3656>>,   \* 22: how much is left
     <<3618, 3629, 3604, 3588, 3591, 3648, 3627, 3621, 3639, 3629>>,   \* 23: balance
     <<98, 97, 108, 97, 110, 99, 101>>,   \* 24: 'balance'
     <<3651, 3594, 3657, 3652, 3611, 3648, 3607, 3656, 3634, 3652, 3627, 3619, 3656>>,   \* 25: how much was spent
     <<3651, 3594, 3657, 3592, 3656, 3634, 3618>>,   \* 26: chaichai (spending)
     <<3648, 3611, 3657, 3634, 3627, 3617, 3634, 3618>>,   \* 27: paomai (goals)
     <<3604, 3641, 3648, 3611, 3657, 3634, 3627, 3617, 3634, 3618>>,   \* 28: du paomai (view goals)
     <<103, 111, 97, 108, 115>>,   \* 29: 'goals'
     <<3588, 3623, 3634, 3617, 3626, 3635, 3648, 3619, 3655, 3592>>,   \* 30: khwamsamret (achievements)
     <<97, 99, 104, 105, 101, 118, 101, 109, 101, 110, 116, 115>>,   \* 31: 'achievements'
     <<98, 97, 100, 103, 101>>,   \* 32: 'badge'
     <<3649, 3610, 3604, 3592, 3660>>,   \* 33: badge
     <<106, 111, 117, 114, 110, 97, 108>>,   \* 34: 'journal'
     <<3604, 3641, 3610, 3633, 3609, 3607, 3638, 3585>>,   \* 35: du banthuek (view journal)
     <<3610, 3633, 3609, 3607, 3638, 3585, 3623, 3633, 3609, 3609, 3637, 3657>>,   \* 36: banthuek wanni (journal today)
     <<3621, 3656, 3634, 3626, 3640, 3604>>,   \* 37: lasut (recent)
     <<3619, 3634, 3618, 3585, 3634, 3619, 3621, 3656, 3634, 3626, 3640, 3604>>,   \* 38: raikan lasut (recent items)
     <<114, 101, 99, 101, 110, 116>>,   \* 39: 'recent'
     <<3619, 3634, 3618, 3585, 3634, 3619, 3627, 3617, 3623, 3604>>,   \* 40: raikan muat (category list)
     <<3627, 3617, 3623, 3604, 3607, 3633, 3657, 3591, 3627, 3617, 3604>>,   \* 41: muat thangmot (all categories)
     <<99, 97, 116, 101, 103, 111, 114, 105, 101, 115>>,   \* 42: 'categories'
     <<3626, 3606, 3636, 3605, 3636>>,   \* 43: sathiti (stats)
     <<115, 116, 97, 116, 115>>,   \* 44: 'stats'
     <<3586, 3657, 3629, 3617, 3641, 3621>>,   \* 45: khomun (data)
     <<104, 101, 108, 112>>,   \* 46: 'help'
     <<3594, 3656, 3623, 3618>>,   \* 47: chuai (help)
     <<3594, 3656, 3623, 3618, 3648, 3627, 3621, 3639, 3629>>,   \* 48: chuailuea (help)
     <<3588, 3635, 3626, 3633, 3656, 3591>> >>   \* 49: khamsang (commands)

\* app.post('/api/simulate-line'): the literal command phrases
simulateCommands ==
  << <<3626, 3619, 3640, 3611>>,   \* 1: sarup (summary)
     <<3626, 3619, 3640, 3611, 3648, 3604, 3639, 3629, 3609>>,   \* 2: sarup duean (month summary)
     <<3626, 3619, 3640, 3611, 3623, 3633, 3609>>,   \* 3: sarup wan (day summary)
     <<3623, 3633, 3609, 3609, 3637, 3657>>,   \* 4: wanni (today)
     <<3604, 3641, 3627, 3617, 3623, 3604>>,   \* 5: du muat (view categories)
     <<3627, 3617, 3623, 3604>>,   \* 6: muat (category)
     <<3627, 3617, 3623, 3604, 3627, 3617, 3641, 3656>>,   \* 7: muatmu (categories)
     <<3648, 3611, 3657, 3634, 3627, 3617, 3634, 3618>>,   \* 8: paomai (goals)
     <<103, 111, 97, 108, 115>>,   \* 9: 'goals'
     <<3588, 3623, 3634, 3617, 3626, 3635, 3648, 3619, 3655, 3592>>,   \* 10: khwamsamret (achievements)
     <<97, 99, 104, 105, 101, 118, 101, 109, 101, 110, 116, 115>>,   \* 11: 'achievements'
     <<98, 97, 100, 103, 101>>,   \* 12: 'badge'
     <<3626, 3606, 3636, 3605, 3636>>,   \* 13: sathiti (stats)
     <<115, 116, 97, 116, 115>>,   \* 14: 'stats'
     <<104, 101, 108, 112>>,   \* 15: 'help'
     <<3594, 3656, 3623, 3618>>,   \* 16: chuai (help)
     <<3594, 3656, 3623, 3618, 3648, 3627, 3621, 3639, 3629>>,   \* 17: chuailuea (help)
     <<3588, 3635, 3626, 3633, 3656, 3591>> >>   \* 18: khamsang (commands)

\* the verb of /^tang-ngop\s+(.+?)\s+(\d+)$/i
budgetVerbs ==
  << <<3605, 3633, 3657, 3591, 3591, 3610>> >>   \* 1: tang ngop (set budget)
\* the verb of /^tang-pao\s+(.+?)\s+(\d+)$/i
goalVerbs ==
  << <<3605, 3633, 3657, 3591, 3648, 3611, 3657, 3634>> >>   \* 1: tang pao (set goal)
\* the verb of /^om\s+(.+?)\s+(\d+)$/i
saveVerbs ==
  << <<3629, 3629, 3617>> >>   \* 1: om (save)
\* the verbs of /^(?:arom|mood)\s*(\d)$/
moodVerbs ==
  << <<3629, 3634, 3619, 3617, 3603, 3660>>,   \* 1: arom (mood)
     <<109, 111, 111, 100>> >>   \* 2: 'mood'
\* the verbs of /^(?:chot|banthuek|note)\s+(.+)$/i
noteVerbs ==
  << <<3592, 3604>>,   \* 1: chot (jot)
     <<3610, 3633, 3609, 3607, 3638, 3585>>,   \* 2: banthuek (record)
     <<110, 111, 116, 101>> >>   \* 3: 'note'

-----------------------------------------------------------------------------
(* The clock: new Date() in local time, one calendar day per unit of `today' *)

\* the calendar date of day 0, the day the server starts
Epoch == [y |-> 2026, m |-> 2, d |-> 27]

IsLeapYear(y) == (y % 4 = 0 /\ y % 100 # 0) \/ y % 400 = 0

DaysInMonth(y, m) ==
  IF m = 2 THEN (IF IsLeapYear(y) THEN 29 ELSE 28)
  ELSE IF m \in {4, 6, 9, 11} THEN 30 ELSE 31

NextDate(d) ==
  IF d.d < DaysInMonth(d.y, d.m) THEN [d EXCEPT !.d = d.d + 1]
  ELSE IF d.m < 12 THEN [y |-> d.y, m |-> d.m + 1, d |-> 1]
  ELSE [y |-> d.y + 1, m |-> 1, d |-> 1]

\* the local date of day n
RECURSIVE DateOf(_)
DateOf(n) ==
  IF n = 0 THEN Epoch
  ELSE NextDate(DateOf(n - 1))

\* yesterday.setDate(yesterday.getDate() - 1): day 0 of a month is the last
\* day of the month before
SetDateMinusOne(d) ==
  IF d.d > 1 THEN [d EXCEPT !.d = d.d - 1]
  ELSE IF d.m > 1 THEN [y |-> d.y, m |-> d.m - 1, d |-> DaysInMonth(d.y, d.m - 1)]
  ELSE [y |-> d.y - 1, m |-> 12, d |-> 31]

\* String(n).padStart(2, '0') for 0 <= n <= 99
PadStart2(n) == <<ZERO + (n \div 10), ZERO + (n % 10)>>

\* String(y) for a four digit year
YearStr(y) == <<ZERO + (y \div 1000), ZERO + ((y \div 100) % 10),
                ZERO + ((y \div 10) % 10), ZERO + (y % 10)>>

\* `${getFullYear()}-${padStart(getMonth() + 1)}-${padStart(getDate())}`
FormatDate(d) == YearStr(d.y) \o <<HYPHEN>> \o PadStart2(d.m) \o <<HYPHEN>> \o PadStart2(d.d)

\* `${getFullYear()}-${padStart(getMonth() + 1)}`
FormatMonth(d) == YearStr(d.y) \o <<HYPHEN>> \o PadStart2(d.m)

getTodayStr(day) == FormatDate(DateOf(day))

getCurrentMonthStr(day) == FormatMonth(DateOf(day))

\* yesterdayStr of the streak update
yesterdayStr(day) == FormatDate(SetDateMinusOne(DateOf(day)))

-----------------------------------------------------------------------------
(* Numbers: a decimal literal is kept exactly, as units / 10^scale with no  *)
(* trailing zero in the fraction, so that '1.50' and '1.5' are one number   *)

NaN == [nan |-> TRUE, units |-> 0, scale |-> 0]

Digits == 48..57
WhiteSpace == {9, 10, 11, 12, 13, 32}
NumberChars == Digits \cup {COMMA}

Pow10(k) == IF k = 0 THEN 1 ELSE IF k = 1 THEN 10 ELSE IF k = 2 THEN 100 ELSE 1000

RECURSIVE DigitsValue(_)
DigitsValue(ds) ==
  IF ds = <<>> THEN 0
  ELSE 10 * DigitsValue(SubSeq(ds, 1, Len(ds) - 1)) + (ds[Len(ds)] - ZERO)

RECURSIVE Normalize(_)
Normalize(n) ==
  IF n.scale > 0 /\ n.units % 10 = 0
  THEN Normalize([nan |-> FALSE, units |-> n.units \div 10, scale |-> n.scale - 1])
  ELSE n

\* the index of the last character of the longest run of characters of C
\* that starts at p; p - 1 when s[p] is not in C
RunEnd(s, p, C) ==
  CHOOSE q \in (p - 1)..Len(s) :
    /\ \A j \in p..q : s[j] \in C
    /\ q = Len(s) \/ s[q + 1] \notin C

\* parseFloat(str) for the strings the handlers pass: digits, then
\* optionally '.' and digits; anything after that is ignored; no digit at
\* all gives NaN
parseFloat(str) ==
  LET i == RunEnd(str, 1, Digits)
      hasFrac == i + 2 <= Len(str) /\ str[i + 1] = DOT /\ IsDigit(str[i + 2])
      f == IF hasFrac THEN RunEnd(str, i + 2, Digits) ELSE i
      frac == IF hasFrac THEN Slice(str, i + 2, f) ELSE <<>>
  IN  IF i = 0 /\ ~hasFrac THEN NaN
      ELSE Normalize([nan |-> FALSE, units |-> DigitsValue(Slice(str, 1, i)) * Pow10(Len(frac)) + DigitsValue(frac),
                      scale |-> Len(frac)])

\* str.replace(/,/g, '')
RemoveCommas(str) == SelectSeq(str, LAMBDA c : c # COMMA)

-----------------------------------------------------------------------------
(* The regular expressions of the handlers *)

\* the result of a match that failed (null)
NoMatch == [matched |-> FALSE]

\* handleEvent: text.match(/[\d,]+(\.\d+)?/), the leftmost match
numberPattern(text) ==
  LET starts == {p \in 1..Len(text) : text[p] \in NumberChars}
  IN  IF starts = {} THEN [matched |-> FALSE, from |-> 0, to |-> 0]
      ELSE LET p == CHOOSE x \in starts : \A y \in starts : x <= y
               q == RunEnd(text, p, NumberChars)
               hasFrac == q + 2 <= Len(text) /\ text[q + 1] = DOT /\ IsDigit(text[q + 2])
               e == IF hasFrac THEN RunEnd(text, q + 2, Digits) ELSE q
           IN  [matched |-> TRUE, from |-> p, to |-> e]

\* (?:\s+(.*))?$ after position f: nothing is left, or white space and then
\* any characters but line terminators up to the end
SmartTailOK(s, f) ==
  \/ f = Len(s)
  \/ /\ f < Len(s)
     /\ IsSpace(s[f + 1])
     /\ \A j \in (RunEnd(s, f + 1, WhiteSpace) + 1)..Len(s) : ~IsLineTerminator(s[j])

\* \s+(\d+(?:\.\d+)?)(?:\s+(.*))?$ after a first group that ends at i:
\* the greedy runs either match as a whole or the attempt fails
SmartRest(s, i) ==
  IF ~(i >= 1 /\ i < Len(s) /\ IsSpace(s[i + 1])) THEN NoMatch
  ELSE LET w == RunEnd(s, i + 1, WhiteSpace)
       IN  IF ~(w < Len(s) /\ IsDigit(s[w + 1])) THEN NoMatch
           ELSE LET d == RunEnd(s, w + 1, Digits)
                    hasFrac == d + 2 <= Len(s) /\ s[d + 1] = DOT /\ IsDigit(s[d + 2])
                    f == IF hasFrac THEN RunEnd(s, d + 2, Digits) ELSE d
                    e == IF SmartTailOK(s, f) THEN f
                         ELSE IF SmartTailOK(s, d) THEN d ELSE 0
                IN  IF e = 0 THEN NoMatch
                    ELSE [matched |-> TRUE,
                          amountStr |-> Slice(s, w + 1, e),
                          note |-> IF e = Len(s) THEN <<>>
                                   ELSE Slice(s, RunEnd(s, e + 1, WhiteSpace) + 1, Len(s))]

\* originalText.match(/^(.+?)\s+(\d+(?:\.\d+)?)(?:\s+(.*))?$/): the lazy first
\* group is the shortest prefix after which the rest matches
SmartInputRegex(s) ==
  LET ok == {i \in 1..Len(s) :
               /\ \A j \in 1..i : ~IsLineTerminator(s[j])
               /\ SmartRest(s, i).matched}
  IN  IF ok = {} THEN NoMatch
      ELSE LET i == CHOOSE x \in ok : \A y \in ok : x <= y
           IN  [matched |-> TRUE,
                categoryName |-> Slice(s, 1, i),
                amountStr |-> SmartRest(s, i).amountStr,
                note |-> SmartRest(s, i).note]

\* the RegExp constructor threw
SyntaxError == [error |-> TRUE, atoms |-> <<>>]

\* new RegExp(source, 'i') for a source made of ordinary characters, '.'
\* and '+': a sequence of atoms, each possibly repeated; a '+' with nothing
\* to repeat throws SyntaxError
RECURSIVE RegExpAtoms(_, _)
RegExpAtoms(source, atoms) ==
  IF source = <<>> THEN [error |-> FALSE, atoms |-> atoms]
  ELSE IF Head(source) = PLUS
       THEN IF atoms = <<>> \/ atoms[Len(atoms)].plus THEN SyntaxError
            ELSE RegExpAtoms(Tail(source), [atoms EXCEPT ![Len(atoms)].plus = TRUE])
       ELSE RegExpAtoms(Tail(source),
                        Append(atoms, [any |-> Head(source) = DOT, ch |-> Head(source), plus |-> FALSE]))

RegExp(source) == RegExpAtoms(source, <<>>)

AtomMatches(a, c) ==
  IF a.any THEN ~IsLineTerminator(c) ELSE ToLowerChar(a.ch) = ToLowerChar(c)

RECURSIVE MatchAt(_, _, _, _)
MatchAt(atoms, k, s, p) ==
  IF k > Len(atoms) THEN TRUE
  ELSE IF atoms[k].plus
       THEN \E n \in 1..(Len(s) - p + 1) :
              /\ \A j \in p..(p + n - 1) : AtomMatches(atoms[k], s[j])
              /\ MatchAt(atoms, k + 1, s, p + n)
       ELSE /\ p <= Len(s)
            /\ AtomMatches(atoms[k], s[p])
            /\ MatchAt(atoms, k + 1, s, p + 1)

\* regexp.test(s) with the 'i' flag: a match anywhere in s
RegExpTest(re, s) == \E p \in 1..(Len(s) + 1) : MatchAt(re.atoms, 1, s, p)

-----------------------------------------------------------------------------
(* Bounds of the model *)

\* the LINE user ids that send requests
LineUserIds == {"U1"}

\* the last day the clock reaches
MaxDay == 3

\* the Transaction collection holds at most this many documents
MaxTx == 1

-----------------------------------------------------------------------------
(* The database: one variable per collection.  A document id is the        *)
(* position of the document in its collection (natural order); users are   *)
(* keyed by lineUserId, which carries a unique index.                      *)

VARIABLES
  today,         \* the local calendar day of new Date(), as a day number
  users,         \* User: lineUserId -> document, for the registered users
  groups,        \* Group: sequence of documents
  categories,    \* Category: sequence of documents
  transactions,  \* Transaction: sequence of documents
  journals,      \* DailyJournal: sequence of documents
  goals,         \* SavingsGoal: sequence of documents
  inflight,      \* the requests that loaded their User and await their writes
  last           \* what the last answered request did (history variable)

vars == <<today, users, groups, categories, transactions, journals, goals, inflight, last>>

\* the collections as one value
DB == [users |-> users, groups |-> groups, categories |-> categories,
       transactions |-> transactions, journals |-> journals, goals |-> goals]

\* new User({ lineUserId, ... }) with the schema defaults
NewUser(groupId) ==
  [currentGroupId |-> groupId, streak |-> 0, lastRecordDate |-> null,
   achievements |-> <<>>, totalSaved |-> 0]

\* createDefaultCategories(groupId): the documents of Category.insertMany
createDefaultCategories(groupId) ==
  [i \in 1..Len(defaultExpenseNames) |->
     [groupId |-> groupId, name |-> defaultExpenseNames[i], type |-> "expense",
      budgetLimit |-> [nan |-> FALSE, units |-> 0, scale |-> 0]]]
  \o
  [i \in 1..Len(defaultIncomeNames) |->
     [groupId |-> groupId, name |-> defaultIncomeNames[i], type |-> "income",
      budgetLimit |-> [nan |-> FALSE, units |-> 0, scale |-> 0]]]

\* new Group({ type: 'personal', members: [userId], createdBy: userId })
NewGroup(u) == [type |-> "personal", members |-> {u}, createdBy |-> u]

\* first contact: personalGroup.save(), createDefaultCategories, user.save()
RegisterUser(db, u) ==
  LET gid == Len(db.groups) + 1
  IN  [db EXCEPT
         !.groups = Append(@, NewGroup(u)),
         !.categories = @ \o createDefaultCategories(gid),
         !.users = [x \in DOMAIN @ \cup {u} |-> IF x = u THEN NewUser(gid) ELSE @[x]]]

\* the ids of the categories of a group, in storage order
CategoryIdsOf(db, groupId) ==
  SelectSeq([i \in 1..Len(db.categories) |-> i], LAMBDA i : db.categories[i].groupId = groupId)

\* Array.prototype.find / Model.findOne over ids: the first id that
\* satisfies the test (ids holds those that do, in order), 0 when there is
\* none
FirstId(ids) ==
  IF ids = <<>> THEN 0 ELSE Head(ids)

\* User.findOne({ lineUserId }): the document in a one-element sequence, or
\* null
FindUser(db, u) == IF u \in DOMAIN db.users THEN <<db.users[u]>> ELSE null

\* a save with optimistic concurrency control: the document is written only
\* when it is still the one that was loaded
SaveUserVersioned(stored, loaded, local) ==
  IF stored = loaded THEN local ELSE stored

\* a save that writes the whole local document over the stored one
SaveUserWhole(stored, loaded, local) == local

\* user.save(): Mongoose sends $set for the scalar paths that changed since
\* the document was loaded and $push for the elements pushed on the array,
\* without a version condition
SaveUser(stored, loaded, local) ==
  [stored EXCEPT
     !.currentGroupId = IF local.currentGroupId # loaded.currentGroupId THEN local.currentGroupId ELSE @,
     !.streak = IF local.streak # loaded.streak THEN local.streak ELSE @,
     !.lastRecordDate = IF local.lastRecordDate # loaded.lastRecordDate THEN local.lastRecordDate ELSE @,
     !.achievements = @ \o SubSeq(local.achievements, Len(loaded.achievements) + 1, Len(local.achievements))]

-----------------------------------------------------------------------------
(* Streak and achievements *)

\* Array.prototype.includes, then push
PushIfMissing(achs, id) == IF id \in Range(achs) THEN achs ELSE Append(achs, id)

\* the body of `if (user.lastRecordDate !== todayStr) { ... }' up to, and
\* without, user.save(); checksMonth tells whether the handler has the
\* `user.streak === 30' test
StreakBody(user, day, checksMonth) ==
  LET streak == IF user.lastRecordDate = yesterdayStr(day) THEN user.streak + 1 ELSE 1
      a1 == IF streak = 7 THEN PushIfMissing(user.achievements, "week_streak") ELSE user.achievements
      a2 == IF checksMonth /\ streak = 30 THEN PushIfMissing(a1, "month_streak") ELSE a1
      a3 == PushIfMissing(a2, "first_record")
  IN  [user EXCEPT !.streak = streak, !.lastRecordDate = getTodayStr(day), !.achievements = a3]

\* whether the streak update runs
StreakDue(user, day) == user.lastRecordDate # getTodayStr(day)

UpdateStreak(user, day, checksMonth) ==
  IF StreakDue(user, day) THEN StreakBody(user, day, checksMonth) ELSE user

-----------------------------------------------------------------------------
(* Requests: a handler is an operator from the database, the day and the   *)
(* request to the new database and what the request did                    *)

\* a reply sent to the user: its kind and the category names it suggests
Reply(kind, suggestions) == [kind |-> kind, suggestions |-> suggestions]

\* db: the database after the request; replies: the replies sent, in order;
\* txWrites, userWrites: the number of Transaction and User documents saved;
\* failed: the persistence call that rejected, "none" when none did
Result(db, outcome, replies, txWrites, userWrites) ==
  [db |-> db, outcome |-> outcome, replies |-> replies,
   txWrites |-> txWrites, userWrites |-> userWrites, failed |-> "none"]

\* a catch block that logs the failure and sends nothing
FailedSilently(db, point, saves) ==
  [db |-> db, outcome |-> "error", replies |-> <<>>, txWrites |-> 0, userWrites |-> saves,
   failed |-> point]

\* the catch block of handleEvent after the call `point' rejected: the
\* failure text is the reply, what was saved before the throw stays
Failed(db, point, saves) ==
  [Result(db, "error", <<Reply("error", <<>>)>>, 0, saves) EXCEPT !.failed = point]

\* the catch block of POST /api/simulate-line after the call `point'
\* rejected: res.status(500).json({ success: false, error: error.message })
Failed500(db, point, txWrites) ==
  [Result(db, "threw", <<>>, txWrites, 0) EXCEPT !.failed = point]

\* new Transaction({...}) with date: new Date(); the pre('save') hook derives
\* monthStr from date.  Of the timestamp the model keeps the month.
NewTransaction(groupId, userId, type, amount, categoryId, day, note) ==
  [groupId |-> groupId, userId |-> userId, type |-> type, amount |-> amount,
   categoryId |-> categoryId, monthStr |-> FormatMonth(DateOf(day)), note |-> note]

\* transaction.save() passes validation: amount casts to a Number (NaN does
\* not) and is at least the schema's min
TransactionValid(tx) == ~tx.amount.nan /\ tx.amount.units >= 0

\* the position in kws of the first keyword that text includes, 0 if none
FirstKeyword(text, kws) ==
  LET hits == {k \in 1..Len(kws) : includes(text, kws[k])}
  IN  IF hits = {} THEN 0 ELSE CHOOSE k \in hits : \A j \in hits : k <= j

\* itemName.replace(/^(kha|ngoen|khong)/g, ''): the first alternative that
\* matches at the start is removed
StripCommonPrefix(itemName) ==
  LET hits == {k \in 1..Len(commonPrefixes) : OccursAt(itemName, 1, commonPrefixes[k])}
      k == CHOOSE x \in hits : \A y \in hits : x <= y
  IN  IF hits = {} THEN itemName
      ELSE Slice(itemName, Len(commonPrefixes[k]) + 1, Len(itemName))

\* handleEvent, step 3: amount, type and category name of a text that
\* numberPattern matches; threw: new RegExp(keyword, 'g') threw
HandleEventParse(text) ==
  LET m == numberPattern(text)
      rawAmount == parseFloat(RemoveCommas(Slice(text, m.from, m.to)))
      textWithoutNumber == trim(Slice(text, 1, m.from - 1) \o Slice(text, m.to + 1, Len(text)))
      ik == FirstKeyword(text, incomeKeywords)
      ek == FirstKeyword(text, expenseKeywords)
      keyword == IF ik > 0 THEN incomeKeywords[ik]
                 ELSE IF ek > 0 THEN expenseKeywords[ek] ELSE <<>>
      threw == keyword # <<>> /\ RegExp(keyword).error
      stripped == IF keyword = <<>> \/ threw THEN textWithoutNumber
                  ELSE trim(RemoveAll(textWithoutNumber, keyword))
      itemName == trim(StripCommonPrefix(stripped))
  IN  [threw |-> threw,
       rawAmount |-> rawAmount,
       textWithoutNumber |-> textWithoutNumber,
       type |-> IF ik > 0 THEN "income" ELSE "expense",
       itemName |-> itemName,
       categoryName |-> IF itemName = <<>> THEN fallbackNames[1] ELSE itemName]

\* handleEvent, "Find Category": the category id (0: none) and the type of
\* the transaction
HandleEventCategory(db, groupId, parsed) ==
  LET ids == CategoryIdsOf(db, groupId)
      cat(i) == db.categories[i]
      byName == FirstId(SelectSeq(ids, LAMBDA i : toLowerCase(cat(i).name) = toLowerCase(parsed.categoryName)))
      byFallback == FirstId(SelectSeq(ids, LAMBDA i : cat(i).type = parsed.type /\ cat(i).name \in Range(fallbackNames)))
      byType == FirstId(SelectSeq(ids, LAMBDA i : cat(i).type = parsed.type))
      category == IF byName # 0 THEN byName ELSE IF byFallback # 0 THEN byFallback ELSE byType
      exactNameMatch == FirstId(SelectSeq(ids, LAMBDA i :
                          /\ parsed.textWithoutNumber # <<>>
                          /\ toLowerCase(cat(i).name) = toLowerCase(parsed.textWithoutNumber)))
  IN  IF exactNameMatch # 0
      THEN [categoryId |-> exactNameMatch, type |-> cat(exactNameMatch).type]
      ELSE [categoryId |-> category, type |-> parsed.type]

\* handleEvent(event) for a text message of u, from the answer of
\* User.findOne on: found is that answer, db0 the database at the writes,
\* fail the persistence call that the database rejects ("none": none).
\* user.save() of a new user rejects by itself when the unique index on
\* lineUserId holds u already.  The catch block replies with the failure
\* text and keeps what was saved before the throw.
handleEventFound(db0, day, u, found, messageText, fail) ==
  LET Save(db, saves, transaction) ==
        IF fail = "Transaction.save" \/ ~TransactionValid(transaction)
        THEN Failed(db, "Transaction.save", saves)
        ELSE Result([db EXCEPT !.transactions = Append(@, transaction)],
                    "recorded", <<Reply("recorded", <<>>)>>, 1, saves)
      Found(db, saves, text, groupId, parsed, category) ==
        IF category.categoryId = 0
        THEN Result(db, "notfound", <<Reply("notfound", <<>>)>>, 0, saves)
        ELSE Save(db, saves, NewTransaction(groupId, u, category.type, parsed.rawAmount,
                                            category.categoryId, day, text))
      Parsed(db, saves, text, groupId, parsed) ==
        IF parsed.threw
        THEN Result(db, "error", <<Reply("error", <<>>)>>, 0, saves)
        ELSE IF fail = "Category.find" THEN Failed(db, "Category.find", saves)
        ELSE Found(db, saves, text, groupId, parsed, HandleEventCategory(db, groupId, parsed))
      Text(db, saves, text, groupId) ==
        IF toLowerCase(text) \in Range(handleEventCommands)
        THEN Result(db, "command", <<Reply("summary", <<>>)>>, 0, saves)
        ELSE IF ~numberPattern(text).matched
        THEN Result(db, "ignored", <<>>, 0, saves)
        ELSE Parsed(db, saves, text, groupId, HandleEventParse(text))
      Register(grouped, gid) ==
        IF fail = "Category.insertMany" THEN Failed(grouped, "Category.insertMany", 0)
        ELSE IF fail = "User.save" \/ u \in DOMAIN db0.users
        THEN Failed([grouped EXCEPT !.categories = @ \o createDefaultCategories(gid)], "User.save", 0)
        ELSE Text(RegisterUser(db0, u), 1, trim(messageText), gid)
  IN  IF fail = "User.findOne" THEN Failed(db0, "User.findOne", 0)
      ELSE IF found # null THEN Text(db0, 0, trim(messageText), found[1].currentGroupId)
      ELSE IF fail = "Group.save" THEN Failed(db0, "Group.save", 0)
      ELSE Register([db0 EXCEPT !.groups = Append(@, NewGroup(u))], Len(db0.groups) + 1)

\* the event handled with no other request in between and no rejected call
handleEvent(db0, day, u, messageText) ==
  handleEventFound(db0, day, u, FindUser(db0, u), messageText, "none")

-----------------------------------------------------------------------------
(* The command patterns of the second /webhook handler *)

\* the first of verbs that s starts with, ignoring case; 0 if none
VerbAtStart(s, verbs) ==
  LET hits == {k \in 1..Len(verbs) : OccursAt(toLowerCase(s), 1, toLowerCase(verbs[k]))}
  IN  IF hits = {} THEN 0 ELSE CHOOSE k \in hits : \A j \in hits : k <= j

\* s.match(/^VERB\s+(.+?)\s+(\d+)$/i): the white space after the verb is
\* greedy, the name lazy, the digits run to the end
VerbNameAmountRegex(s, verbs) ==
  LET k == VerbAtStart(s, verbs)
      v == Len(verbs[k])
      fits(a, b) ==
        /\ \A j \in (v + 1)..a : IsSpace(s[j])
        /\ \A j \in (a + 1)..b : ~IsLineTerminator(s[j])
        /\ b < Len(s)
        /\ IsSpace(s[b + 1])
        /\ LET w == RunEnd(s, b + 1, WhiteSpace)
           IN  w < Len(s) /\ IsDigit(s[w + 1]) /\ RunEnd(s, w + 1, Digits) = Len(s)
      as == {a \in (v + 1)..Len(s) : \E b \in (a + 1)..Len(s) : fits(a, b)}
      a == CHOOSE x \in as : \A y \in as : x >= y
      bs == {b \in (a + 1)..Len(s) : fits(a, b)}
      b == CHOOSE x \in bs : \A y \in bs : x <= y
  IN  IF k = 0 THEN [matched |-> FALSE]
      ELSE IF as = {} THEN [matched |-> FALSE]
      ELSE [matched |-> TRUE,
            name |-> Slice(s, a + 1, b),
            amountStr |-> Slice(s, RunEnd(s, b + 1, WhiteSpace) + 1, Len(s))]

\* text.match(/^(?:arom|mood)\s*(\d)$/)
MoodRegex(text) ==
  LET k == VerbAtStart(text, moodVerbs)
      v == Len(moodVerbs[k])
  IN  IF k = 0 THEN [matched |-> FALSE]
      ELSE IF /\ OccursAt(text, 1, moodVerbs[k])
              /\ RunEnd(text, v + 1, WhiteSpace) = Len(text) - 1
              /\ IsDigit(text[Len(text)])
           THEN [matched |-> TRUE, digit |-> text[Len(text)] - ZERO]
           ELSE [matched |-> FALSE]

\* originalText.match(/^(?:chot|banthuek|note)\s+(.+)$/i)
NoteRegex(s) ==
  LET k == VerbAtStart(s, noteVerbs)
      v == Len(noteVerbs[k])
      w == RunEnd(s, v + 1, WhiteSpace)
      from == IF w < Len(s) THEN w + 1 ELSE w
  IN  IF k = 0 THEN [matched |-> FALSE]
      ELSE IF /\ w >= v + 1
              /\ from >= v + 2
              /\ \A j \in from..Len(s) : ~IsLineTerminator(s[j])
           THEN [matched |-> TRUE, noteText |-> Slice(s, from, Len(s))]
           ELSE [matched |-> FALSE]

\* the ids of the DailyJournal documents of (userId, date)
JournalIds(js, userId, date) ==
  {i \in DOMAIN js : js[i].userId = userId /\ js[i].date = date}

\* DailyJournal.findOne({ userId, date }): the first in storage order
FirstJournal(js, userId, date) ==
  CHOOSE i \in JournalIds(js, userId, date) : \A j \in JournalIds(js, userId, date) : i <= j

\* new DailyJournal({ userId, date }) with the schema defaults
NewJournal(userId, date) == [userId |-> userId, date |-> date, mood |-> 3, note |-> <<>>]

\* a collection without the index: no insert is ever rejected
NoUniqueIndex(js, userId, date) == FALSE

\* dailyJournalSchema.index({ userId: 1, date: 1 }, { unique: true }): an
\* insert of a document whose key the collection holds is rejected with a
\* duplicate key error
DuplicateKey(js, userId, date) == JournalIds(js, userId, date) # {}

\* DailyJournal.findOneAndUpdate({ userId, date }, { $set: { [field]: value } },
\* { upsert: true }): the document of (userId, date) is updated, or inserted
\* with the schema defaults
UpsertJournal(js, userId, date, field, value) ==
  IF JournalIds(js, userId, date) = {}
  THEN Append(js, [NewJournal(userId, date) EXCEPT ![field] = value])
  ELSE [js EXCEPT ![FirstJournal(js, userId, date)][field] = value]

\* Category.findOne / SavingsGoal.findOne with name: { $regex: re }: the
\* first document in storage order
FirstCategory(db, groupId, re, types) ==
  FirstId(SelectSeq(CategoryIdsOf(db, groupId), LAMBDA i :
            db.categories[i].type \in types /\ RegExpTest(re, db.categories[i].name)))

\* number >= number
NumGE(x, y) == x.units * Pow10(y.scale) >= y.units * Pow10(x.scale)

NumAdd(x, y) ==
  Normalize([nan |-> FALSE,
             units |-> x.units * Pow10(IF y.scale > x.scale THEN y.scale - x.scale ELSE 0)
                       + y.units * Pow10(IF x.scale > y.scale THEN x.scale - y.scale ELSE 0),
             scale |-> IF x.scale > y.scale THEN x.scale ELSE y.scale])

Num(n) == [nan |-> FALSE, units |-> n, scale |-> 0]

-----------------------------------------------------------------------------
(* Smart Input of the second /webhook handler and of /api/simulate-line *)

\* Category.find({ groupId, type: 'expense' }).limit(8), the names
Suggestions(db, groupId) ==
  LET ids == SelectSeq(CategoryIdsOf(db, groupId), LAMBDA i : db.categories[i].type = "expense")
  IN  [k \in 1..(IF Len(ids) < 8 THEN Len(ids) ELSE 8) |-> db.categories[ids[k]].name]

\* from the regex match to the end of the streak update: the same statements
\* in both handlers but for the `streak === 30' test.  user is the document
\* that User.findOne returned to the handler; threw: new RegExp threw;
\* fail: the persistence call that the database rejects ("none": none).
\* transaction.save() comes before user.save(), and the catch block of the
\* route keeps what was saved before the throw.
SmartInput(db, day, u, user, originalText, checksMonth, fail) ==
  LET Save(transaction, local) ==
        IF fail = "Transaction.save" \/ ~TransactionValid(transaction)
        THEN Failed500(db, "Transaction.save", 0)
        ELSE IF fail = "User.save" /\ StreakDue(user, day)
        THEN Failed500([db EXCEPT !.transactions = Append(@, transaction)], "User.save", 1)
        ELSE Result([db EXCEPT !.transactions = Append(@, transaction),
                               !.users[u] = SaveUser(@, user, local)],
                    "recorded", <<Reply("recorded", <<>>)>>, 1,
                    IF StreakDue(user, day) THEN 1 ELSE 0)
      Found(match, categoryId) ==
        IF categoryId = 0
        THEN Result(db, "notfound", <<Reply("notfound", Suggestions(db, user.currentGroupId))>>, 0, 0)
        ELSE Save(NewTransaction(user.currentGroupId, u, db.categories[categoryId].type,
                                 parseFloat(match.amountStr), categoryId, day, match.note),
                  UpdateStreak(user, day, checksMonth))
      Compiled(match, re) ==
        IF re.error THEN Result(db, "threw", <<>>, 0, 0)
        ELSE Found(match, FirstCategory(db, user.currentGroupId, re, {"expense", "income"}))
      Matched(match) ==
        IF ~match.matched THEN Result(db, "nomatch", <<>>, 0, 0)
        ELSE Compiled(match, RegExp(match.categoryName))
  IN  Matched(SmartInputRegex(originalText))

\* 'tang ngop NAME AMOUNT'
BudgetCommand(db, groupId, m) ==
  LET Found(cat) ==
        IF cat = 0 THEN Result(db, "command", <<Reply("budget not found", <<>>)>>, 0, 0)
        ELSE Result([db EXCEPT !.categories[cat].budgetLimit = parseFloat(m.amountStr)],
                    "command", <<Reply("budget set", <<>>)>>, 0, 0)
      Compiled(re) ==
        IF re.error THEN Result(db, "threw", <<>>, 0, 0)
        ELSE Found(FirstCategory(db, groupId, re, {"expense"}))
  IN  Compiled(RegExp(m.name))

\* 'tang pao NAME AMOUNT'
GoalCommand(db, groupId, u, m) ==
  Result([db EXCEPT !.goals = Append(@, [groupId |-> groupId, userId |-> u, name |-> m.name,
                                         targetAmount |-> parseFloat(m.amountStr),
                                         currentAmount |-> Num(0), isCompleted |-> FALSE])],
         "command", <<Reply("goal created", <<>>)>>, 0, 0)

\* 'om NAME AMOUNT'
SaveCommand(db, groupId, u, m) ==
  LET Add(g, sum, done) ==
        Result([db EXCEPT !.goals[g].currentAmount = IF done THEN db.goals[g].targetAmount ELSE sum,
                          !.goals[g].isCompleted = done],
               "command", <<Reply("goal saved", <<>>)>>, 0, 0)
      Sum(g, sum) == Add(g, sum, NumGE(sum, db.goals[g].targetAmount))
      Found(hits) ==
        IF hits = {} THEN Result(db, "command", <<Reply("goal not found", <<>>)>>, 0, 0)
        ELSE LET g == CHOOSE x \in hits : \A y \in hits : x <= y
             IN  Sum(g, NumAdd(db.goals[g].currentAmount, parseFloat(m.amountStr)))
      Compiled(re) ==
        IF re.error THEN Result(db, "threw", <<>>, 0, 0)
        ELSE Found({g \in 1..Len(db.goals) :
                      /\ db.goals[g].groupId = groupId
                      /\ db.goals[g].userId = u
                      /\ RegExpTest(re, db.goals[g].name)
                      /\ ~db.goals[g].isCompleted})
  IN  Compiled(RegExp(m.name))

\* the body of the for loop of app.post('/webhook', async ...) for one text
\* event of u.  The literal phrases contain no white space and no digit and
\* the patterns start with different verbs, so at most one test of the
\* chain succeeds and the order of the tests decides nothing.
WebhookEvent(db, day, u, messageText) ==
  LET Journal(originalText, moodMatch, noteMatch) ==
        IF moodMatch.matched
        THEN IF moodMatch.digit >= 1 /\ moodMatch.digit <= 5
             THEN Result([db EXCEPT !.journals = UpsertJournal(@, u, getTodayStr(day), "mood", moodMatch.digit)],
                         "command", <<Reply("mood saved", <<>>)>>, 0, 0)
             ELSE Result(db, "command", <<>>, 0, 0)
        ELSE IF noteMatch.matched
        THEN Result([db EXCEPT !.journals = UpsertJournal(@, u, getTodayStr(day), "note", noteMatch.noteText)],
                    "command", <<Reply("note saved", <<>>)>>, 0, 0)
        ELSE SmartInput(db, day, u, db.users[u], originalText, TRUE, "none")
      Patterns(text, originalText, groupId, budgetMatch, goalMatch, saveMatch) ==
        IF budgetMatch.matched THEN BudgetCommand(db, groupId, budgetMatch)
        ELSE IF goalMatch.matched THEN GoalCommand(db, groupId, u, goalMatch)
        ELSE IF saveMatch.matched THEN SaveCommand(db, groupId, u, saveMatch)
        ELSE Journal(originalText, MoodRegex(text), NoteRegex(originalText))
      Event(text, originalText) ==
        IF u \notin DOMAIN db.users \/ db.users[u].currentGroupId = 0
        THEN Result(db, "unregistered", <<Reply("register", <<>>)>>, 0, 0)
        ELSE IF text \in Range(webhookCommands)
        THEN Result(db, "command", <<Reply("command", <<>>)>>, 0, 0)
        ELSE Patterns(text, originalText, db.users[u].currentGroupId,
                      VerbNameAmountRegex(originalText, budgetVerbs),
                      VerbNameAmountRegex(originalText, goalVerbs),
                      VerbNameAmountRegex(originalText, saveVerbs))
  IN  Event(toLowerCase(trim(messageText)), trim(messageText))

\* a middleware that lets every request pass
requireAuthOpen(db, lineUserId) == "next"

\* requireAuth(req, res, next): "401" when the x-line-user-id header is
\* missing or empty (lineUserId = "") or names no User, "next" otherwise
requireAuth(db, lineUserId) ==
  IF lineUserId = "" THEN "401"
  ELSE IF lineUserId \notin DOMAIN db.users THEN "401"
  ELSE "next"

\* a route registered behind requireAuth: r is what its handler does
Protected(db, lineUserId, r) ==
  IF requireAuth(db, lineUserId) = "next" THEN r ELSE Result(db, "401", <<>>, 0, 0)

\* the handler of app.post('/api/simulate-line', requireAuth, ...) from the
\* answer of its User.findOne on: found is that answer, db the database at
\* the writes, fail the persistence call that the database rejects
simulateLineFound(db, day, u, found, message, fail) ==
  IF message = <<>> THEN Result(db, "400", <<>>, 0, 0)
  ELSE IF found = null
  THEN Result(db, "unregistered", <<Reply("register", <<>>)>>, 0, 0)
  ELSE IF found[1].currentGroupId = 0
  THEN Result(db, "unregistered", <<Reply("register", <<>>)>>, 0, 0)
  ELSE IF toLowerCase(trim(message)) \in Range(simulateCommands)
  THEN Result(db, "command", <<Reply("command", <<>>)>>, 0, 0)
  ELSE IF ~SmartInputRegex(trim(message)).matched
  THEN Result(db, "nomatch", <<Reply("unknown", <<>>)>>, 0, 0)
  ELSE SmartInput(db, day, u, found[1], trim(message), FALSE, fail)

\* the request served with no other request in between and no rejected call
simulateLine(db, day, u, message) ==
  Protected(db, u, simulateLineFound(db, day, u, FindUser(db, u), message, "none"))

-----------------------------------------------------------------------------
(* Express routing of POST /webhook *)

\* the handlers registered for POST /webhook, in the order of registration;
\* each of them ends the response on every path and none calls next()
webhookHandlers ==
  << [name |-> "handleEvent", callsNext |-> FALSE],
     [name |-> "webhookLoop", callsNext |-> FALSE] >>

\* a router that ran every handler registered for the path
HandlersAll(handlers) == handlers

\* Express runs the handlers of a path in the order of registration, up to
\* and including the first that does not call next()
HandlersRun(handlers) ==
  LET ends == {k \in 1..Len(handlers) : ~handlers[k].callsNext}
  IN  IF ends = {} THEN handlers
      ELSE SubSeq(handlers, 1, CHOOSE k \in ends : \A j \in ends : k <= j)

RunHandler(name, db, day, u, text) ==
  IF name = "handleEvent" THEN handleEvent(db, day, u, text)
  ELSE WebhookEvent(db, day, u, text)

\* what a delivery did so far and what the next handler did, together
ThenResult(acc, r) ==
  [Result(r.db, r.outcome, acc.replies \o r.replies,
          acc.txWrites + r.txWrites, acc.userWrites + r.userWrites) EXCEPT !.failed = r.failed]

\* the handlers that run for one delivery, one after the other on the same
\* database; the delivery's outcome is that of the handler that answers
RECURSIVE RunHandlers(_, _, _, _, _)
RunHandlers(handlers, acc, day, u, text) ==
  IF handlers = <<>> THEN acc
  ELSE RunHandlers(Tail(handlers),
                   ThenResult(acc, RunHandler(Head(handlers).name, acc.db, day, u, text)),
                   day, u, text)

\* POST /webhook with one text event of u; line.middleware passes the
\* request on only when its signature is valid
postWebhook(db, day, u, text, signatureValid) ==
  IF ~signatureValid THEN Result(db, "rejected", <<>>, 0, 0)
  ELSE RunHandlers(HandlersRun(webhookHandlers), Result(db, "none", <<>>, 0, 0), day, u, text)

\* POST /api/auth/login
login(db, u) ==
  IF u \in DOMAIN db.users THEN Result(db, "login", <<>>, 0, 1)
  ELSE Result(RegisterUser(db, u), "login", <<>>, 0, 1)

\* the handler of app.delete('/api/transactions/:id', requireAuth, ...);
\* without req.user the read of req.user.currentGroupId throws and the
\* catch block answers 500
deleteTransactionHandler(db, u, id) ==
  IF u \notin DOMAIN db.users THEN Result(db, "threw", <<>>, 0, 0)
  ELSE IF id \in 1..Len(db.transactions) /\ db.transactions[id].groupId = db.users[u].currentGroupId
  THEN Result([db EXCEPT !.transactions = SubSeq(@, 1, id - 1) \o SubSeq(@, id + 1, Len(@))],
              "deleted", <<>>, 0, 0)
  ELSE Result(db, "404", <<>>, 0, 0)

\* DELETE /api/transactions/:id
deleteTransaction(db, u, id) == Protected(db, u, deleteTransactionHandler(db, u, id))

-----------------------------------------------------------------------------
(* Values of a JSON request body *)

\* a property that the body does not have
JUndefined == [type |-> "undefined", str |-> <<>>]

\* a JSON string
JString(str) == [type |-> "string", str |-> str]

\* a JSON number; str is String(number)
JNumber(str) == [type |-> "number", str |-> str]

\* parseFloat(v): of String(v); a leading '-' negates
parseFloatOf(v) ==
  IF v.type = "undefined" THEN NaN
  ELSE IF v.str # <<>> /\ v.str[1] = HYPHEN
  THEN [parseFloat(Tail(v.str)) EXCEPT !.units = 0 - @]
  ELSE parseFloat(v.str)

\* ToBoolean(v): undefined, '', 0 and NaN are falsy
Truthy(v) ==
  IF v.type = "undefined" THEN FALSE
  ELSE IF v.type = "string" THEN v.str # <<>>
  ELSE ~parseFloatOf(v).nan /\ parseFloatOf(v).units # 0

\* x + y of two numbers
NumPlus(x, y) == IF x.nan \/ y.nan THEN NaN ELSE NumAdd(x, y)

\* a Number path with min: 0 passes validation: a number, not below 0
MinZero(x) == ~x.nan /\ x.units >= 0

-----------------------------------------------------------------------------
(* Transaction, category and group routes *)

\* the handler of app.post('/api/transactions', requireAuth, ...).  The
\* category is looked up by its id alone; type, amount and categoryId of the
\* body go into the document; transaction.save() validates type (enum) and
\* amount (a number, min: 0); a failed validation ends in the catch (500).
postTransaction(db, day, u, type, amount, categoryId) ==
  LET groupId == db.users[u].currentGroupId
      transaction == NewTransaction(groupId, u, type, parseFloatOf(amount), categoryId, day, <<>>)
  IN  IF groupId = 0 THEN Result(db, "400", <<>>, 0, 0)
      ELSE IF type = "" \/ ~Truthy(amount) \/ categoryId = 0 THEN Result(db, "400", <<>>, 0, 0)
      ELSE IF categoryId \notin DOMAIN db.categories THEN Result(db, "404", <<>>, 0, 0)
      ELSE IF type \notin {"expense", "income"} \/ ~TransactionValid(transaction)
      THEN Result(db, "threw", <<>>, 0, 0)
      ELSE Result([db EXCEPT !.transactions = Append(@, transaction)], "created", <<>>, 1, 0)

\* the handler of app.put('/api/categories/:id/budget', requireAuth, ...):
\* Category.findById(id), the assignment of parseFloat(budgetLimit) when the
\* body has it, category.save(); a NaN does not cast and ends in the catch
putCategoryBudget(db, u, id, budgetLimit) ==
  IF id \notin DOMAIN db.categories THEN Result(db, "404", <<>>, 0, 0)
  ELSE IF budgetLimit.type = "undefined" THEN Result(db, "updated", <<>>, 0, 0)
  ELSE IF parseFloatOf(budgetLimit).nan THEN Result(db, "threw", <<>>, 0, 0)
  ELSE Result([db EXCEPT !.categories[id].budgetLimit = parseFloatOf(budgetLimit)],
              "updated", <<>>, 0, 0)

\* the handler of app.post('/api/groups/switch', requireAuth, ...):
\* Group.findOne({ _id: groupId, members: lineUserId }), then
\* req.user.currentGroupId = group._id and req.user.save()
switchGroup(db, u, groupId) ==
  IF groupId = 0 THEN Result(db, "400", <<>>, 0, 0)
  ELSE IF groupId \notin DOMAIN db.groups \/ u \notin db.groups[groupId].members
  THEN Result(db, "404", <<>>, 0, 0)
  ELSE Result([db EXCEPT !.users[u] =
                 SaveUser(@, db.users[u], [db.users[u] EXCEPT !.currentGroupId = groupId])],
              "switched", <<>>, 0, 1)

-----------------------------------------------------------------------------
(* Goal routes *)

\* the handler of app.post('/api/goals', requireAuth, ...): name and
\* targetAmount of the body must be truthy; goal.save() validates
\* targetAmount (required, min: 0); currentAmount and isCompleted take the
\* schema defaults
createGoal(db, u, name, targetAmount) ==
  IF ~Truthy(name) \/ ~Truthy(targetAmount) THEN Result(db, "400", <<>>, 0, 0)
  ELSE IF ~MinZero(parseFloatOf(targetAmount)) THEN Result(db, "threw", <<>>, 0, 0)
  ELSE Result([db EXCEPT !.goals = Append(@, [groupId |-> db.users[u].currentGroupId, userId |-> u,
                                              name |-> name.str,
                                              targetAmount |-> parseFloatOf(targetAmount),
                                              currentAmount |-> Num(0), isCompleted |-> FALSE])],
              "created", <<>>, 0, 0)

\* SavingsGoal.findOne({ _id: id, userId }): the document in a one-element
\* sequence, or null
FindGoal(db, u, id) ==
  IF id \in DOMAIN db.goals /\ db.goals[id].userId = u THEN <<db.goals[id]>> ELSE null

\* PUT /api/goals/:id between findOne and goal.save(): the changes that the
\* handler makes to the document it loaded
updateGoalLocal(goal, body) ==
  LET added == IF Truthy(body.addAmount)
               THEN NumPlus(goal.currentAmount, parseFloatOf(body.addAmount))
               ELSE goal.currentAmount
      current == IF body.currentAmount.type # "undefined"
                 THEN parseFloatOf(body.currentAmount) ELSE added
      target == IF Truthy(body.targetAmount)
                THEN parseFloatOf(body.targetAmount) ELSE goal.targetAmount
  IN  [goal EXCEPT !.currentAmount = current,
                   !.targetAmount = target,
                   !.isCompleted = IF ~current.nan /\ ~target.nan /\ NumGE(current, target)
                                   THEN TRUE ELSE @]

\* goal.save(): $set of the paths whose values the handler changed, without
\* a version condition
SaveGoal(stored, loaded, local) ==
  [stored EXCEPT
     !.currentAmount = IF local.currentAmount # loaded.currentAmount THEN local.currentAmount ELSE @,
     !.targetAmount = IF local.targetAmount # loaded.targetAmount THEN local.targetAmount ELSE @,
     !.isCompleted = IF local.isCompleted # loaded.isCompleted THEN local.isCompleted ELSE @]

\* the handler of app.put('/api/goals/:id', requireAuth, ...) from the
\* answer of SavingsGoal.findOne on: found is that answer, db the database
\* at goal.save(), which validates currentAmount and targetAmount (min: 0)
updateGoalFound(db, u, id, found, body) ==
  LET Save(local) ==
        IF ~MinZero(local.currentAmount) \/ ~MinZero(local.targetAmount)
        THEN Result(db, "threw", <<>>, 0, 0)
        ELSE Result([db EXCEPT !.goals[id] = SaveGoal(@, found[1], local)], "updated", <<>>, 0, 0)
  IN  IF found = null THEN Result(db, "404", <<>>, 0, 0)
      ELSE Save(updateGoalLocal(found[1], body))

\* the request served with no other request in between
updateGoal(db, u, id, body) ==
  Protected(db, u, updateGoalFound(db, u, id, FindGoal(db, u, id), body))

-----------------------------------------------------------------------------
(* Journal routes *)

\* the $set of PUT /api/journal/today: `...(mood && { mood })'; mood 0
\* stands for a body without mood
SetMood(journal, mood) == IF mood # 0 THEN [journal EXCEPT !.mood = mood] ELSE journal

\* GET /api/journal/today after findOne found nothing: journal.save() of
\* the new document; a duplicate key error ends in the catch block (500)
getJournalTodaySave(db, u, date) ==
  IF DuplicateKey(db.journals, u, date) THEN Result(db, "threw", <<>>, 0, 0)
  ELSE Result([db EXCEPT !.journals = Append(@, NewJournal(u, date))], "ok", <<>>, 0, 0)

\* `if (journalCount >= 10)'
JournalLoverCount == 10

\* PUT /api/journal/today, "Check achievement": countDocuments, and from ten
\* journals on User.findOne, push of 'journal_lover' when it is missing and
\* user.save()
journalLover(db, u) ==
  IF /\ Cardinality({i \in DOMAIN db.journals : db.journals[i].userId = u}) >= JournalLoverCount
     /\ "journal_lover" \notin Range(db.users[u].achievements)
  THEN Result([db EXCEPT !.users[u] =
                 SaveUser(db.users[u], db.users[u],
                          [db.users[u] EXCEPT !.achievements = Append(@, "journal_lover")])],
              "ok", <<>>, 0, 1)
  ELSE Result(db, "ok", <<>>, 0, 0)

\* PUT /api/journal/today from the write of findOneAndUpdate(..., { upsert:
\* true }) on.  matched: the query of the upsert found the document, which
\* is then updated in place.  Otherwise the upsert inserts; when the index
\* rejects the insert because another request inserted in between, the
\* server either retries the upsert as an update (retries) or the call
\* rejects with the duplicate key error and the catch block answers 500.
putJournalTodayWrite(db, u, date, mood, matched, retries) ==
  LET Update(i) == journalLover([db EXCEPT !.journals[i] = SetMood(@, mood)], u)
  IN  IF matched THEN Update(FirstJournal(db.journals, u, date))
      ELSE IF ~DuplicateKey(db.journals, u, date)
      THEN journalLover([db EXCEPT !.journals = Append(@, SetMood(NewJournal(u, date), mood))], u)
      ELSE IF retries THEN Update(FirstJournal(db.journals, u, date))
      ELSE Result(db, "threw", <<>>, 0, 0)

\* the handler of PUT /api/journal/today served with no other request in
\* between
putJournalToday(db, day, u, mood) ==
  putJournalTodayWrite(db, u, getTodayStr(day), mood,
                       JournalIds(db.journals, u, getTodayStr(day)) # {}, FALSE)

-----------------------------------------------------------------------------
(* The messages of the model *)

\* 'ahan 150': the name of an expense category
msgFood150 == <<3629, 3634, 3627, 3634, 3619, 32, 49, 53, 48>>

\* 'doenthang 50 kha-taxi': category, amount and note
msgTravelTaxi == <<3648, 3604, 3636, 3609, 3607, 3634, 3591, 32, 53, 48, 32, 3588, 3656, 3634, 3649, 3607, 3655, 3585, 3595, 3637, 3656>>

\* 'ngoenduean 25000': an income keyword that is the name of an income category
msgSalary == <<3648, 3591, 3636, 3609, 3648, 3604, 3639, 3629, 3609, 32, 50, 53, 48, 48, 48>>

\* 'sue khong plaek-plaek 99': a label no category name contains
msgOddBuy == <<3595, 3639, 3657, 3629, 3586, 3629, 3591, 3649, 3611, 3621, 3585, 3654, 32, 57, 57>>

\* 'rap 100': an income keyword and nothing else
msgReceive == <<3619, 3633, 3610, 32, 49, 48, 48>>

\* 'rap chang 100': an income keyword and a word that names no category
msgReceiveWage == <<3619, 3633, 3610, 3592, 3657, 3634, 3591, 32, 49, 48, 48>>

\* ' skincare 12.50  x ': lower case name, decimal amount, note, white space around
msgSkincareLower == <<32, 115, 107, 105, 110, 99, 97, 114, 101, 32, 49, 50, 46, 53, 48, 32, 32, 120, 32>>

\* 'uen-uen 20': the name shared by an expense and an income category
msgOthers == <<3629, 3639, 3656, 3609, 3654, 32, 50, 48>>

\* 'aha 30 rap': a label contained in 'ahan', an income keyword in the note
msgFoodPrefixNote == <<3629, 3634, 3627, 3634, 32, 51, 48, 32, 3619, 3633, 3610>>

\* 'hello': no number, no command
msgHello == <<104, 101, 108, 108, 111>>

\* 'a,b': no digit, a comma
msgComma == <<97, 44, 98>>

\* '+ 5': the label is not a regular expression
msgPlus == <<43, 32, 53>>

\* '. 5': the label matches any character
msgDot == <<46, 32, 53>>

\* 'ahan 1,000': an amount with a thousands separator
msgThousands == <<3629, 3634, 3627, 3634, 3619, 32, 49, 44, 48, 48, 48>>

\* 'sarup': the summary command
msgSummary == <<3626, 3619, 3640, 3611>>

\* 'Help': a command of the second handler and of the simulator only
msgHelp == <<72, 101, 108, 112>>

\* 'arom 4': the mood command
msgMood == <<3629, 3634, 3619, 3617, 3603, 3660, 32, 52>>

\* 'chot abc': the note command
msgNote == <<3592, 3604, 32, 97, 98, 99>>

\* 'tang-ngop ahan 500': the budget command
msgBudget == <<3605, 3633, 3657, 3591, 3591, 3610, 32, 3629, 3634, 3627, 3634, 3619, 32, 53, 48, 48>>

\* 'tang-pao trip 100': the goal command
msgGoal == <<3605, 3633, 3657, 3591, 3648, 3611, 3657, 3634, 32, 116, 114, 105, 112, 32, 49, 48, 48>>

\* 'om trip 100': the add-to-goal command
msgSave == <<3629, 3629, 3617, 32, 116, 114, 105, 112, 32, 49, 48, 48>>

\* 'a1 5': a label that contains a digit
msgLabelDigit == <<97, 49, 32, 53>>

\* 'aha 30': a label that the name 'ahan' contains, and no other name
msgFoodPrefix == <<3629, 3634, 3627, 3634, 32, 51, 48>>

\* 'tang-ngop xyz 500': the budget command for a category that does not exist
msgBudgetMissing == <<3605, 3633, 3657, 3591, 3591, 3610, 32, 120, 121, 122, 32, 53, 48, 48>>

\* 'tang-ngop ahan': the budget command without its amount
msgBudgetNoAmount == <<3605, 3633, 3657, 3591, 3591, 3610, 32, 3629, 3634, 3627, 3634, 3619>>

\* the texts sent while the days pass
Messages == {msgFood150, msgHello}

\* the texts sent on one day
TextMessages ==
  { msgFood150, msgTravelTaxi, msgSalary, msgThousands, msgReceive, msgOddBuy,
    msgHello, msgComma, msgPlus, msgFoodPrefix, msgHelp, msgMood, msgNote,
    msgBudget, msgBudgetMissing, msgBudgetNoAmount, msgSave, msgSummary }

\* the documents a SavingsGoal collection holds at most
MaxGoals == 1

\* the requests that can await their writes at the same time
MaxInflight == 2

\* the documents the Group collection holds at most
MaxGroups == 2

\* the documents the DailyJournal collection holds at most
MaxJournals == 11

\* the most that the model lets a goal's currentAmount become
MaxSaved == 100

-----------------------------------------------------------------------------
(* Actions *)

\* the day before day 0, as getTodayStr wrote it on that day
EpochEve == FormatDate([Epoch EXCEPT !.d = @ - 1])

\* The server starts on day 0 against the database that earlier runs left.
\* A seed is the streak state of a user who recorded through Smart Input on
\* each of the `streak' days up to the eve of day 0 (POST /api/simulate-line):
\* 'first_record' came with the first record, 'week_streak' with the seventh
\* day of a row, this row or an earlier one.
SeedUsers ==
  { [streak |-> 0, lastRecordDate |-> null, achievements |-> <<>>],
    [streak |-> 5, lastRecordDate |-> EpochEve, achievements |-> <<"first_record">>],
    [streak |-> 5, lastRecordDate |-> EpochEve, achievements |-> <<"first_record", "week_streak">>],
    [streak |-> 28, lastRecordDate |-> EpochEve, achievements |-> <<"first_record", "week_streak">>] }

EmptyDB ==
  [users |-> <<>>, groups |-> <<>>, categories |-> <<>>, transactions |-> <<>>,
   journals |-> <<>>, goals |-> <<>>]

\* the database in which u registered and reached the streak state of seed
SeedDB(u, seed) ==
  [RegisterUser(EmptyDB, u) EXCEPT
     !.users[u].streak = seed.streak,
     !.users[u].lastRecordDate = seed.lastRecordDate,
     !.users[u].achievements = seed.achievements]

\* the databases the server starts against: empty, or one user with a seed
InitDBs == {EmptyDB} \cup {SeedDB("U1", seed) : seed \in SeedUsers}

NoRequest ==
  [op |-> "none", user |-> "none", text |-> <<>>, outcome |-> "none",
   replies |-> <<>>, txWrites |-> 0, userWrites |-> 0, failed |-> "none"]

\* the server starts on day 0 against one of dbs
Start(dbs) ==
  /\ today = 0
  /\ \E db \in dbs :
       /\ users = db.users
       /\ groups = db.groups
       /\ categories = db.categories
       /\ transactions = db.transactions
       /\ journals = db.journals
       /\ goals = db.goals
  /\ inflight = <<>>
  /\ last = NoRequest

Init == Start(InitDBs)

\* a request is answered: the collections take the values the handler
\* leaves and `last' records the request.  A collection grows only while it
\* holds fewer documents than the model keeps.
Store(op, u, text, r) ==
  /\ Len(r.db.transactions) > Len(transactions) => Len(transactions) < MaxTx
  /\ Len(r.db.goals) > Len(goals) => Len(goals) < MaxGoals
  /\ Len(r.db.groups) > Len(groups) => Len(groups) < MaxGroups
  /\ Len(r.db.journals) > Len(journals) => Len(journals) < MaxJournals
  /\ \A g \in DOMAIN r.db.goals : ~NumGE(r.db.goals[g].currentAmount, Num(MaxSaved + 1))
  /\ users' = r.db.users
  /\ groups' = r.db.groups
  /\ categories' = r.db.categories
  /\ transactions' = r.db.transactions
  /\ journals' = r.db.journals
  /\ goals' = r.db.goals
  /\ last' = [op |-> op, user |-> u, text |-> text, outcome |-> r.outcome,
              replies |-> r.replies, txWrites |-> r.txWrites, userWrites |-> r.userWrites,
              failed |-> r.failed]

\* a request served with no other request in between
Answer(op, u, text, r) == Store(op, u, text, r) /\ UNCHANGED <<today, inflight>>

PostWebhook(u, text, signatureValid) ==
  Answer("POST /webhook", u, text, postWebhook(DB, today, u, text, signatureValid))

SimulateLine(u, text) ==
  Answer("POST /api/simulate-line", u, text, simulateLine(DB, today, u, text))

Login(u) ==
  Answer("POST /api/auth/login", u, <<>>, login(DB, u))

DeleteTransaction(u, id) ==
  Answer("DELETE /api/transactions/:id", u, <<>>, deleteTransaction(DB, u, id))

\* midnight passes
Tick(maxDay) ==
  /\ today < maxDay
  /\ today' = today + 1
  /\ UNCHANGED <<users, groups, categories, transactions, journals, goals, inflight, last>>

\* the values of the x-line-user-id header: a LINE user id, or "" for a
\* request without the header
Headers == LineUserIds \cup {""}

Next ==
  \/ \E u \in LineUserIds, text \in Messages, sig \in BOOLEAN : PostWebhook(u, text, sig)
  \/ \E h \in Headers, text \in Messages : SimulateLine(h, text)
  \/ \E u \in LineUserIds : Login(u)
  \/ \E h \in Headers, id \in 1..MaxTx : DeleteTransaction(h, id)
  \/ Tick(MaxDay)

Spec == Init /\ [][Next]_vars

-----------------------------------------------------------------------------
(* One day, many texts: the server starts against the empty database or    *)
(* against that of a user who registered and recorded nothing              *)

InitText == Start({EmptyDB, SeedDB("U1", [streak |-> 0, lastRecordDate |-> null, achievements |-> <<>>])})

NextText ==
  \/ \E u \in LineUserIds, text \in TextMessages : PostWebhook(u, text, TRUE)
  \/ \E u \in LineUserIds, text \in TextMessages : SimulateLine(u, text)
  \/ \E u \in LineUserIds : Login(u)
  \/ \E u \in LineUserIds, id \in 1..MaxTx : DeleteTransaction(u, id)

SpecText == InitText /\ [][NextText]_vars

-----------------------------------------------------------------------------
(* Requests that overlap: a handler runs up to an await, other requests    *)
(* run, and it goes on.  POST /api/simulate-line is split after            *)
(* User.findOne; what follows writes on the document it read.              *)

\* a request that read its User and awaits its writes
Waiting(op, u, text, found) ==
  [op |-> op, user |-> u, text |-> text, found |-> found, date |-> <<>>, mood |-> 0,
   id |-> 0, body |-> <<>>]

\* requireAuth, and the handler up to the answer of User.findOne
SimulateFind(u, text) ==
  IF requireAuth(DB, u) # "next"
  THEN Answer("POST /api/simulate-line", u, text, Result(DB, "401", <<>>, 0, 0))
  ELSE /\ Len(inflight) < MaxInflight
       /\ inflight' = Append(inflight, Waiting("POST /api/simulate-line", u, text, FindUser(DB, u)))
       /\ UNCHANGED <<today, users, groups, categories, transactions, journals, goals, last>>

\* the rest of the handler, for the k-th of the waiting requests
SimulateWrite(k) ==
  /\ k \in DOMAIN inflight
  /\ inflight[k].op = "POST /api/simulate-line"
  /\ Store("POST /api/simulate-line", inflight[k].user, inflight[k].text,
           simulateLineFound(DB, today, inflight[k].user, inflight[k].found, inflight[k].text, "none"))
  /\ inflight' = SubSeq(inflight, 1, k - 1) \o SubSeq(inflight, k + 1, Len(inflight))
  /\ UNCHANGED today

\* the days that pass while requests overlap
MaxRaceDay == 1

\* the server starts against the empty database or against that of a user
\* with a streak of five days and a first record
InitRace ==
  Start({EmptyDB,
         SeedDB("U1", [streak |-> 5, lastRecordDate |-> EpochEve, achievements |-> <<"first_record">>])})

NextRace ==
  \/ \E u \in LineUserIds, text \in {msgFood150} : SimulateFind(u, text)
  \/ \E k \in 1..MaxInflight : SimulateWrite(k)
  \/ \E u \in LineUserIds : Login(u)
  \/ \E u \in LineUserIds, id \in 1..MaxTx : DeleteTransaction(u, id)
  \/ Tick(MaxRaceDay)

SpecRace == InitRace /\ [][NextRace]_vars

-----------------------------------------------------------------------------
(* Journal requests that overlap each other and the simulator.  GET         *)
(* /api/journal/today is split after findOne, PUT /api/journal/today        *)
(* between the query and the insert of its upsert.                          *)

\* a journal request that awaits its write: date is the todayStr it computed
JournalWaiting(op, u, date, mood) ==
  [op |-> op, user |-> u, text |-> <<>>, found |-> null, date |-> date, mood |-> mood,
   id |-> 0, body |-> <<>>]

\* the values of mood in the body of PUT /api/journal/today; 0: none
JournalMoods == {0, 4}

\* the journals written before day 0: one less than 'journal_lover' takes
JournalSeedDays == JournalLoverCount - 1

\* the database of a user who recorded on five days up to two days before
\* day 0 and wrote a journal on each of the JournalSeedDays days before it
JournalDB ==
  [SeedDB("U1", [streak |-> 5, lastRecordDate |-> FormatDate([Epoch EXCEPT !.d = @ - 2]),
                 achievements |-> <<"first_record">>])
     EXCEPT !.journals =
       [k \in 1..JournalSeedDays |->
          SetMood(NewJournal("U1", FormatDate([Epoch EXCEPT !.d = @ - (JournalSeedDays + 1 - k)])), 4)]]

InitJournal == Start({JournalDB})

\* requireAuth, and GET /api/journal/today up to the answer of findOne
GetJournalFind(h) ==
  IF requireAuth(DB, h) # "next"
  THEN Answer("GET /api/journal/today", h, <<>>, Result(DB, "401", <<>>, 0, 0))
  ELSE IF JournalIds(journals, h, getTodayStr(today)) # {}
  THEN Answer("GET /api/journal/today", h, <<>>, Result(DB, "ok", <<>>, 0, 0))
  ELSE /\ Len(inflight) < MaxInflight
       /\ inflight' = Append(inflight, JournalWaiting("GET /api/journal/today", h, getTodayStr(today), 0))
       /\ UNCHANGED <<today, users, groups, categories, transactions, journals, goals, last>>

\* journal.save() of the k-th waiting request
GetJournalSave(k) ==
  /\ k \in DOMAIN inflight
  /\ inflight[k].op = "GET /api/journal/today"
  /\ Store("GET /api/journal/today", inflight[k].user, <<>>,
           getJournalTodaySave(DB, inflight[k].user, inflight[k].date))
  /\ inflight' = SubSeq(inflight, 1, k - 1) \o SubSeq(inflight, k + 1, Len(inflight))
  /\ UNCHANGED today

\* requireAuth, and PUT /api/journal/today up to the query of the upsert: a
\* document that matches is updated at once
PutJournalFind(h, mood) ==
  IF requireAuth(DB, h) # "next"
  THEN Answer("PUT /api/journal/today", h, <<>>, Result(DB, "401", <<>>, 0, 0))
  ELSE IF JournalIds(journals, h, getTodayStr(today)) # {}
  THEN Answer("PUT /api/journal/today", h, <<>>,
              putJournalTodayWrite(DB, h, getTodayStr(today), mood, TRUE, FALSE))
  ELSE /\ Len(inflight) < MaxInflight
       /\ inflight' = Append(inflight, JournalWaiting("PUT /api/journal/today", h, getTodayStr(today), mood))
       /\ UNCHANGED <<today, users, groups, categories, transactions, journals, goals, last>>

\* the insert of the upsert of the k-th waiting request, and what follows
PutJournalInsert(k, retries) ==
  /\ k \in DOMAIN inflight
  /\ inflight[k].op = "PUT /api/journal/today"
  /\ Store("PUT /api/journal/today", inflight[k].user, <<>>,
           putJournalTodayWrite(DB, inflight[k].user, inflight[k].date, inflight[k].mood, FALSE, retries))
  /\ inflight' = SubSeq(inflight, 1, k - 1) \o SubSeq(inflight, k + 1, Len(inflight))
  /\ UNCHANGED today

NextJournal ==
  \/ \E h \in Headers : GetJournalFind(h)
  \/ \E k \in 1..MaxInflight : GetJournalSave(k)
  \/ \E h \in Headers, mood \in JournalMoods : PutJournalFind(h, mood)
  \/ \E k \in 1..MaxInflight, retries \in BOOLEAN : PutJournalInsert(k, retries)
  \/ Tick(MaxRaceDay)

SpecJournal == InitJournal /\ [][NextJournal]_vars

-----------------------------------------------------------------------------
(* The requests that write achievements: the simulator, split after        *)
(* User.findOne, PUT /api/journal/today and the login, while days pass     *)

PutJournal(h, mood) ==
  Answer("PUT /api/journal/today", h, <<>>, Protected(DB, h, putJournalToday(DB, today, h, mood)))

NextAchieve ==
  \/ \E u \in LineUserIds, text \in {msgFood150} : SimulateFind(u, text)
  \/ \E k \in 1..MaxInflight : SimulateWrite(k)
  \/ \E h \in Headers : PutJournal(h, 4)
  \/ \E u \in LineUserIds : Login(u)
  \/ Tick(MaxRaceDay)

SpecAchieve == InitJournal /\ [][NextAchieve]_vars

-----------------------------------------------------------------------------
(* Goal requests that overlap: PUT /api/goals/:id is split after findOne    *)

\* the names of the goals that are created
goalTrip == <<116, 114, 105, 112>>

\* the values of targetAmount in the body of POST /api/goals: 100, the
\* number 0 and the string '0'
GoalTargets == {JNumber(<<49, 48, 48>>), JNumber(<<48>>), JString(<<48>>)}

\* the bodies of PUT /api/goals/:id: add 50, set the target to 40, set the
\* current amount to 100
GoalUpdates ==
  { [addAmount |-> JNumber(<<53, 48>>), currentAmount |-> JUndefined, targetAmount |-> JUndefined],
    [addAmount |-> JUndefined, currentAmount |-> JUndefined, targetAmount |-> JNumber(<<52, 48>>)],
    [addAmount |-> JUndefined, currentAmount |-> JNumber(<<49, 48, 48>>), targetAmount |-> JUndefined] }

CreateGoal(h, targetAmount) ==
  Answer("POST /api/goals", h, <<>>, Protected(DB, h, createGoal(DB, h, JString(goalTrip), targetAmount)))

\* a PUT /api/goals/:id that read its goal and awaits goal.save()
GoalWaiting(u, id, found, body) ==
  [op |-> "PUT /api/goals/:id", user |-> u, text |-> <<>>, found |-> found, date |-> <<>>,
   mood |-> 0, id |-> id, body |-> <<body>>]

\* requireAuth, and the handler up to the answer of SavingsGoal.findOne
PutGoalFind(h, id, body) ==
  IF requireAuth(DB, h) # "next"
  THEN Answer("PUT /api/goals/:id", h, <<>>, Result(DB, "401", <<>>, 0, 0))
  ELSE /\ Len(inflight) < MaxInflight
       /\ inflight' = Append(inflight, GoalWaiting(h, id, FindGoal(DB, h, id), body))
       /\ UNCHANGED <<today, users, groups, categories, transactions, journals, goals, last>>

\* the rest of the handler, for the k-th of the waiting requests
PutGoalSave(k) ==
  /\ k \in DOMAIN inflight
  /\ inflight[k].op = "PUT /api/goals/:id"
  /\ Store("PUT /api/goals/:id", inflight[k].user, <<>>,
           updateGoalFound(DB, inflight[k].user, inflight[k].id, inflight[k].found, inflight[k].body[1]))
  /\ inflight' = SubSeq(inflight, 1, k - 1) \o SubSeq(inflight, k + 1, Len(inflight))
  /\ UNCHANGED today

NextGoals ==
  \/ \E h \in Headers, targetAmount \in GoalTargets : CreateGoal(h, targetAmount)
  \/ \E h \in Headers, id \in 1..MaxGoals, body \in GoalUpdates : PutGoalFind(h, id, body)
  \/ \E k \in 1..MaxInflight : PutGoalSave(k)

SpecGoals == InitText /\ [][NextGoals]_vars

-----------------------------------------------------------------------------
(* Two users and the routes that take ids from the client *)

\* the users that send requests
RestUsers == {"U1", "U2"}

RestHeaders == RestUsers \cup {""}

\* the database after U1 registered through two overlapping first messages,
\* of which the second left a Group with its Categories and no User, and U2
\* registered after that: groups 1 and 2 have U1 as member, group 3 has U2
RestDB ==
  RegisterUser(handleEventFound(RegisterUser(EmptyDB, "U1"), 0, "U1", null, msgHello, "none").db, "U2")

InitRest == Start({RestDB})

\* 'ahan 0'
msgFoodZero == <<3629, 3634, 3627, 3634, 3619, 32, 48>>

\* the values of amount in the body of POST /api/transactions: 150, the
\* number 0, the string '0' and -5
Amounts == {JNumber(<<49, 53, 48>>), JNumber(<<48>>), JString(<<48>>), JNumber(<<45, 53>>)}

\* the category ids that the clients send: the first category of each group
CategoryIdsSent == {1, Len(createDefaultCategories(1)) + 1, 2 * Len(createDefaultCategories(1)) + 1}

\* 500
budget500 == JNumber(<<53, 48, 48>>)

PostTransaction(h, amount, categoryId) ==
  Answer("POST /api/transactions", h, amount.str,
         Protected(DB, h, postTransaction(DB, today, h, "expense", amount, categoryId)))

PutCategoryBudget(h, id) ==
  Answer("PUT /api/categories/:id/budget", h, <<>>,
         Protected(DB, h, putCategoryBudget(DB, h, id, budget500)))

SwitchGroup(h, groupId) ==
  Answer("POST /api/groups/switch", h, <<>>, Protected(DB, h, switchGroup(DB, h, groupId)))

NextRest ==
  \/ \E h \in RestHeaders, amount \in Amounts, categoryId \in CategoryIdsSent :
       PostTransaction(h, amount, categoryId)
  \/ \E h \in RestHeaders, id \in CategoryIdsSent : PutCategoryBudget(h, id)
  \/ \E h \in RestHeaders, groupId \in DOMAIN RestDB.groups : SwitchGroup(h, groupId)
  \/ \E h \in RestHeaders, id \in 1..MaxTx : DeleteTransaction(h, id)
  \/ \E u \in RestUsers, text \in {msgFood150, msgFoodZero} : PostWebhook(u, text, TRUE)

SpecRest == InitRest /\ [][NextRest]_vars

-----------------------------------------------------------------------------
(* One delivery of several events: the first handler of POST /webhook calls *)
(* handleEvent for every event of req.body.events inside Promise.all, so    *)
(* each call runs up to its first await, User.findOne, before any of them   *)
(* goes on; the calls then go on in the order in which their awaits settle. *)

\* the texts of the events of a delivery
BatchMessages == {msgFood150, msgHello}

\* the deliveries: one event or more, up to the requests the model keeps
Deliveries == UNION {[1..n -> BatchMessages] : n \in 1..MaxInflight}

\* events.map(handleEvent): every call issues its User.findOne against the
\* database as it is when the delivery arrives
WebhookDeliver(u, texts) ==
  /\ inflight = <<>>
  /\ inflight' = [i \in 1..Len(texts) |-> Waiting("POST /webhook", u, texts[i], FindUser(DB, u))]
  /\ UNCHANGED <<today, users, groups, categories, transactions, journals, goals, last>>

\* the rest of handleEvent for the k-th of the waiting events
HandleEventWrite(k) ==
  /\ k \in DOMAIN inflight
  /\ inflight[k].op = "POST /webhook"
  /\ Store("POST /webhook", inflight[k].user, inflight[k].text,
           handleEventFound(DB, today, inflight[k].user, inflight[k].found, inflight[k].text, "none"))
  /\ inflight' = SubSeq(inflight, 1, k - 1) \o SubSeq(inflight, k + 1, Len(inflight))
  /\ UNCHANGED today

NextBatch ==
  \/ \E u \in LineUserIds, texts \in Deliveries : WebhookDeliver(u, texts)
  \/ \E k \in 1..MaxInflight : HandleEventWrite(k)
  \/ \E u \in LineUserIds, id \in 1..MaxTx : DeleteTransaction(u, id)
  \/ Tick(MaxDay)

SpecBatch == InitText /\ [][NextBatch]_vars

-----------------------------------------------------------------------------
(* Persistence calls that reject: the database refuses one call of a        *)
(* request, chosen by the environment                                       *)

\* the calls of the chat handlers that the model lets fail
FailPoints ==
  {"none", "User.findOne", "Group.save", "Category.insertMany", "User.save",
   "Category.find", "Transaction.save"}

PostWebhookFailing(u, text, fail) ==
  Answer("POST /webhook", u, text, handleEventFound(DB, today, u, FindUser(DB, u), text, fail))

SimulateLineFailing(u, text, fail) ==
  Answer("POST /api/simulate-line", u, text,
         Protected(DB, u, simulateLineFound(DB, today, u, FindUser(DB, u), text, fail)))

NextFail ==
  \/ \E u \in LineUserIds, text \in Messages, fail \in FailPoints : PostWebhookFailing(u, text, fail)
  \/ \E u \in LineUserIds, text \in Messages, fail \in FailPoints : SimulateLineFailing(u, text, fail)
  \/ \E u \in LineUserIds, id \in 1..MaxTx : DeleteTransaction(u, id)

SpecFail == InitText /\ [][NextFail]_vars

-----------------------------------------------------------------------------
(* What the properties speak of *)

\* the entry points of chat messages
ChatOps == {"POST /webhook", "POST /api/simulate-line"}

\* this step serves a chat message of u: the delivery was let in (a valid
\* signature, a known x-line-user-id, a message in the body)
ChatAnswered(u) ==
  /\ today' = today
  /\ last'.op \in ChatOps
  /\ last'.user = u
  /\ last'.outcome \notin {"rejected", "401", "400"}

\* this step answers a chat message of u and stores a Transaction
Recorded(u) == ChatAnswered(u) /\ Len(transactions') > Len(transactions)

\* this step answers a chat message of u with the reply that it was recorded
Classified(u) ==
  ChatAnswered(u) /\ \E i \in DOMAIN last'.replies : last'.replies[i].kind = "recorded"

\* the Transaction this step stores
NewTx == transactions'[Len(transactions')]

\* the calendar date of day n, written as the program writes dates
DayStr(n) == IF n < 0 THEN EpochEve ELSE FormatDate(DateOf(n))

\* the streak fields of u before the step; a user that does not exist yet
\* has those of a new document
Old(u) == IF u \in DOMAIN users THEN users[u] ELSE NewUser(0)

\* how often id occurs in achs
Count(achs, id) == Cardinality({i \in DOMAIN achs : achs[i] = id})

\* LABEL AMOUNT [NOTE], the parts being separated by one space each
FirstSpace(text) ==
  LET at == {i \in DOMAIN text : text[i] = SPACE}
  IN  IF at = {} THEN 0 ELSE CHOOSE i \in at : \A j \in at : i <= j

LabelOf(text) == Slice(text, 1, FirstSpace(text) - 1)

AfterLabel(text) == Slice(text, FirstSpace(text) + 1, Len(text))

AmountOf(text) ==
  IF FirstSpace(AfterLabel(text)) = 0 THEN AfterLabel(text) ELSE LabelOf(AfterLabel(text))

NoteOf(text) ==
  IF FirstSpace(AfterLabel(text)) = 0 THEN <<>> ELSE AfterLabel(AfterLabel(text))

\* digits, with thousands separators and a decimal part or without
IsAmount(tok) ==
  /\ tok # <<>>
  /\ IsDigit(tok[1])
  /\ IsDigit(tok[Len(tok)])
  /\ \A i \in DOMAIN tok : IsDigit(tok[i]) \/ tok[i] \in {COMMA, DOT}

IsLabelAmountNote(text) ==
  /\ FirstSpace(text) > 1
  /\ \A i \in DOMAIN LabelOf(text) : ~IsDigit(LabelOf(text)[i])
  /\ IsAmount(AmountOf(text))

IsLabelAmount(text) == IsLabelAmountNote(text) /\ FirstSpace(AfterLabel(text)) = 0

\* the categories of the active group of u that label names, in db
CategoriesNamed(db, u, label) ==
  {i \in Range(CategoryIdsOf(db, db.users[u].currentGroupId)) :
     toLowerCase(db.categories[i].name) = toLowerCase(label)}

\* the categories of the active group of u whose names contain label
CategoriesContaining(db, u, label) ==
  {i \in Range(CategoryIdsOf(db, db.users[u].currentGroupId)) :
     includes(toLowerCase(db.categories[i].name), toLowerCase(label))}

HasIncomeKeyword(text) == \E k \in DOMAIN incomeKeywords : includes(text, incomeKeywords[k])

HasDigit(text) == \E i \in DOMAIN text : IsDigit(text[i])

\* a literal command of one of the handlers, or one of the command patterns
IsCommand(text) ==
  \/ toLowerCase(trim(text)) \in
       Range(handleEventCommands) \cup Range(webhookCommands) \cup Range(simulateCommands)
  \/ \E verbs \in {budgetVerbs, goalVerbs, saveVerbs, moodVerbs, noteVerbs} :
       VerbAtStart(trim(text), verbs) # 0

\* text is a known command: a literal phrase of one of the handlers, or a
\* text that one of the command patterns matches
MatchesCommand(text) ==
  \/ toLowerCase(trim(text)) \in
       Range(handleEventCommands) \cup Range(webhookCommands) \cup Range(simulateCommands)
  \/ \E verbs \in {budgetVerbs, goalVerbs, saveVerbs} :
       VerbNameAmountRegex(trim(text), verbs).matched
  \/ MoodRegex(toLowerCase(trim(text))).matched
  \/ NoteRegex(trim(text)).matched

\* the request of this step was answered with HTTP 500 and the error
Answered500 == last'.outcome = "threw"

\* the collections before and after the step differ
Wrote == <<users, groups, categories, transactions, journals, goals>>'
           # <<users, groups, categories, transactions, journals, goals>>

\* the type that the keywords of text give: income when it holds an income
\* keyword, expense otherwise
InferredType(text) == IF HasIncomeKeyword(text) THEN "income" ELSE "expense"

\* text is a mutating command whose target db does not hold for u, or a
\* command verb followed by no integer amount
MissingTarget(db, u, text) ==
  LET t == trim(text)
      gid == db.users[u].currentGroupId
      budget == VerbNameAmountRegex(t, budgetVerbs)
      save == VerbNameAmountRegex(t, saveVerbs)
  IN  \/ /\ budget.matched
         /\ ~RegExp(budget.name).error
         /\ FirstCategory(db, gid, RegExp(budget.name), {"expense"}) = 0
      \/ /\ save.matched
         /\ ~RegExp(save.name).error
         /\ \A g \in DOMAIN db.goals :
              ~(/\ db.goals[g].groupId = gid
                /\ db.goals[g].userId = u
                /\ ~db.goals[g].isCompleted
                /\ RegExpTest(RegExp(save.name), db.goals[g].name))
      \/ \E verbs \in {budgetVerbs, goalVerbs, saveVerbs} :
           /\ VerbAtStart(t, verbs) # 0
           /\ ~VerbNameAmountRegex(t, verbs).matched

\* the replies that tell the user that something was not found
NotFoundKinds == {"budget not found", "goal not found", "notfound"}

\* the routes of the model that are registered behind requireAuth
ProtectedOps == {"POST /api/simulate-line", "DELETE /api/transactions/:id"}

\* the amount that a request or a chat message names: the body's amount of
\* POST /api/transactions, the token after the label of a chat message
AmountSent ==
  IF last'.op = "POST /api/transactions" THEN parseFloatOf(JString(last'.text))
  ELSE parseFloat(AmountOf(last'.text))

\* this step answers a request that names an amount
NamesAmount ==
  /\ today' = today
  /\ \/ last'.op = "POST /api/transactions" /\ last'.outcome # "401"
     \/ last'.op \in ChatOps /\ IsLabelAmount(last'.text)

\* transactions without the id-th
WithoutTx(id) == SubSeq(transactions, 1, id - 1) \o SubSeq(transactions, id + 1, Len(transactions))

\* the literal phrases of the commands that only read: the summaries, the
\* category views, balance, goals, achievements, journal, recent, stats and
\* help, in any of the handlers
ReadOnlyCommands ==
  Range(handleEventCommands) \cup Range(simulateCommands)
    \cup Range(SubSeq(webhookCommands, 15, Len(webhookCommands)))

-----------------------------------------------------------------------------
(* The claims *)

\* C1. Streak law: when a chat message of u is recorded on day D, then
\* (a) if lastRecordDate was D-1 the streak is the old streak + 1, (b) if it
\* was another day or null the streak is 1, and in both lastRecordDate is D;
\* (c) if it was D already, streak, lastRecordDate and achievements stay.
C1_StreakLaw ==
  [][\A u \in LineUserIds :
       Recorded(u) =>
         /\ Old(u).lastRecordDate = DayStr(today - 1) =>
              /\ users'[u].streak = Old(u).streak + 1
              /\ users'[u].lastRecordDate = DayStr(today)
         /\ Old(u).lastRecordDate \notin {DayStr(today - 1), DayStr(today)} =>
              /\ users'[u].streak = 1
              /\ users'[u].lastRecordDate = DayStr(today)
         /\ Old(u).lastRecordDate = DayStr(today) =>
              /\ users'[u].streak = Old(u).streak
              /\ users'[u].lastRecordDate = Old(u).lastRecordDate
              /\ users'[u].achievements = Old(u).achievements]_vars

\* C2. Streak boundary: the recorded message with which the streak becomes 7
\* leaves 'week_streak' in the achievements, the one with which it becomes
\* 30 leaves 'month_streak', and neither identifier occurs twice.
C2_StreakBoundary ==
  [][\A u \in LineUserIds :
       Recorded(u) =>
         /\ (users'[u].streak = 7 /\ Old(u).streak # 7) =>
              "week_streak" \in Range(users'[u].achievements)
         /\ (users'[u].streak = 30 /\ Old(u).streak # 30) =>
              "month_streak" \in Range(users'[u].achievements)
         /\ Count(users'[u].achievements, "week_streak") <= 1
         /\ Count(users'[u].achievements, "month_streak") <= 1]_vars

\* C3. Achievement idempotence: in every reachable state the achievements
\* of every user hold each identifier at most once.
C3_AchievementsUnique ==
  \A u \in DOMAIN users :
    \A i, j \in DOMAIN users[u].achievements :
      i # j => users[u].achievements[i] # users[u].achievements[j]

\* C4. A chat message answered as recorded writes exactly one Transaction,
\* and writes the User at most once, and only when the user's
\* lastRecordDate is not today's date.
C4_OneWritePerMessage ==
  [][\A u \in LineUserIds :
       Classified(u) =>
         /\ Len(transactions') = Len(transactions) + 1
         /\ last'.txWrites = 1
         /\ last'.userWrites <= 1
         /\ last'.userWrites = 1 => Old(u).lastRecordDate # DayStr(today)]_vars

\* a message of POST /webhook, for which two handlers are registered, was
\* answered as recorded and a Transaction is stored
C4_Witness ==
  /\ Len(webhookHandlers) = 2
  /\ last.op = "POST /webhook"
  /\ last.outcome = "recorded"
  /\ last.txWrites = 1
  /\ Len(transactions) >= 1

\* C5. A chat text without a digit that is no command gets no reply and
\* changes no collection.
C5_NoNumberNoEffect ==
  [][\A u \in LineUserIds :
       (ChatAnswered(u) /\ ~HasDigit(last'.text) /\ ~IsCommand(last'.text)) =>
         /\ last'.replies = <<>>
         /\ UNCHANGED <<users, groups, categories, transactions, journals, goals>>]_vars

\* C6. A chat message '<label> <amount>' of a registered user whose label is,
\* ignoring case, the name of a category of the user's active group stores
\* a Transaction that references a category of that name and has its type.
C6_LabelNamesCategory ==
  [][\A u \in LineUserIds :
       (/\ ChatAnswered(u)
        /\ u \in DOMAIN users
        /\ IsLabelAmount(last'.text)
        /\ CategoriesNamed(DB, u, LabelOf(last'.text)) # {}) =>
         /\ Len(transactions') = Len(transactions) + 1
         /\ NewTx.categoryId \in CategoriesNamed(DB, u, LabelOf(last'.text))
         /\ NewTx.type = categories[NewTx.categoryId].type]_vars

\* C7. A recorded message '<label> <amount>' that contains an income keyword
\* and whose label is the name of no category of the user's group stores a
\* Transaction of type income that references a category of type income.
C7_IncomeKeyword ==
  [][\A u \in LineUserIds :
       (/\ Recorded(u)
        /\ IsLabelAmount(last'.text)
        /\ HasIncomeKeyword(last'.text)
        /\ CategoriesNamed(DB', u, LabelOf(last'.text)) = {}) =>
         /\ NewTx.type = "income"
         /\ categories'[NewTx.categoryId].type = "income"]_vars

\* C8. A recorded message LABEL AMOUNT [NOTE] stores a Transaction whose
\* amount is the number AMOUNT and whose note is NOTE, the empty string when
\* nothing follows the amount.
C8_AmountAndNote ==
  [][\A u \in LineUserIds :
       (Recorded(u) /\ IsLabelAmountNote(last'.text)) =>
         /\ NewTx.amount = parseFloat(RemoveCommas(AmountOf(last'.text)))
         /\ NewTx.note = NoteOf(last'.text)]_vars

\* C9. A message '<label> <amount>' sent to the simulator by a registered
\* user, with a label that no category name of the active group contains, is
\* answered with a 'category not found' reply that lists category names,
\* stores no Transaction and leaves the user's document as it was.
C9_CategoryNotFound ==
  [][\A u \in LineUserIds :
       (/\ ChatAnswered(u)
        /\ last'.op = "POST /api/simulate-line"
        /\ u \in DOMAIN users
        /\ IsLabelAmount(last'.text)
        /\ CategoriesContaining(DB, u, LabelOf(last'.text)) = {}) =>
         /\ \E i \in DOMAIN last'.replies :
              last'.replies[i].kind = "notfound" /\ last'.replies[i].suggestions # <<>>
         /\ transactions' = transactions
         /\ users' = users]_vars

\* C10. The first message that a user who does not exist sends to the chat
\* webhook, being the name of a category and an amount, leaves a User with
\* streak 1, lastRecordDate of the day and 'first_record', and one
\* Transaction more.
C10_FirstMessage ==
  [][\A u \in LineUserIds :
       (/\ ChatAnswered(u)
        /\ last'.op = "POST /webhook"
        /\ u \notin DOMAIN users
        /\ last'.text = msgFood150) =>
         /\ u \in DOMAIN users'
         /\ users'[u].streak = 1
         /\ users'[u].lastRecordDate = DayStr(today)
         /\ "first_record" \in Range(users'[u].achievements)
         /\ Len(transactions') = Len(transactions) + 1]_vars

\* C11. Command priority: a chat message that is a known command, a literal
\* phrase or a text that a command pattern matches, never stores a
\* Transaction, on any chat entry point.
C11_CommandPriority ==
  [][\A u \in LineUserIds :
       (ChatAnswered(u) /\ MatchesCommand(last'.text)) =>
         transactions' = transactions]_vars

\* C12. No silent drop: a chat message of a registered user that contains a
\* digit or is a known command is answered with a reply (or the HTTP error
\* of the simulator) or changes a collection.
C12_NoSilentDrop ==
  [][\A u \in LineUserIds :
       (/\ ChatAnswered(u)
        /\ u \in DOMAIN users
        /\ HasDigit(last'.text) \/ MatchesCommand(last'.text)) =>
         \/ last'.replies # <<>>
         \/ Answered500
         \/ Wrote]_vars

\* C13. No partial state: when a persistence call of a chat message fails,
\* after the message either its Transaction is stored or no User, Group,
\* Category or Transaction document was written for it.
C13_NoPartialState ==
  [][\A u \in LineUserIds :
       (ChatAnswered(u) /\ last'.failed # "none") =>
         \/ Len(transactions') = Len(transactions) + 1
         \/ UNCHANGED <<users, groups, categories, transactions>>]_vars

C15_RequireAuth ==
  [][(/\ today' = today
      /\ last'.op \in ProtectedOps
      /\ last'.user = "" \/ last'.user \notin DOMAIN users) =>
        /\ last'.outcome = "401"
        /\ last'.replies = <<>>
        /\ UNCHANGED <<users, groups, categories, transactions, journals, goals>>]_vars

\* a simulator request without the header was answered 401 while a user is
\* registered and a Transaction is stored
C15_Witness ==
  /\ last.op = "POST /api/simulate-line"
  /\ last.user = ""
  /\ last.outcome = "401"
  /\ users # <<>>
  /\ transactions # <<>>

\* C16. The events of one webhook delivery are processed one after the
\* other: an event goes on to its writes only with the User that the
\* database holds once the events before it have finished, so that what it
\* read is never older than what another event of the delivery wrote.
C16_EventsInOrder ==
  [][\A k \in DOMAIN inflight :
       (/\ inflight[k].op = "POST /webhook"
        /\ inflight' = SubSeq(inflight, 1, k - 1) \o SubSeq(inflight, k + 1, Len(inflight))
        /\ last'.op = "POST /webhook"
        /\ today' = today) =>
         inflight[k].found = FindUser(DB, inflight[k].user)]_vars

C18_TypeOfCategory ==
  [][\A u \in LineUserIds :
       Recorded(u) => NewTx.type = categories'[NewTx.categoryId].type]_vars

\* C19. Category resolution order: the Transaction that a message
\* '<label> <amount>' of a registered user stores references a category named
\* label when there is one; else the category whose name contains label when
\* there is exactly one; else, when no name contains label, the category
\* 'Others' of the type that the keywords give.
C19_ResolutionOrder ==
  [][\A u \in LineUserIds :
       (Recorded(u) /\ u \in DOMAIN users /\ IsLabelAmount(last'.text)) =>
         LET named == CategoriesNamed(DB, u, LabelOf(last'.text))
             containing == CategoriesContaining(DB, u, LabelOf(last'.text))
         IN  /\ named # {} => NewTx.categoryId \in named
             /\ (named = {} /\ Cardinality(containing) = 1) => NewTx.categoryId \in containing
             /\ containing = {} =>
                  /\ categories[NewTx.categoryId].name = fallbackNames[1]
                  /\ categories[NewTx.categoryId].type = InferredType(last'.text)]_vars

\* C20. A mutating command of a registered user whose target is missing, or
\* whose amount is missing or no integer, is answered with a 'not found'
\* reply and changes no Category, SavingsGoal or Transaction.
C20_MissingTarget ==
  [][\A u \in LineUserIds :
       (ChatAnswered(u) /\ u \in DOMAIN users /\ MissingTarget(DB, u, last'.text)) =>
         /\ \E i \in DOMAIN last'.replies : last'.replies[i].kind \in NotFoundKinds
         /\ UNCHANGED <<categories, goals, transactions>>]_vars

\* C21. A read-only command (a summary, a category view, balance, goals,
\* achievements, stats, recent, journal, help) changes no collection: no
\* User, Group, Category, Transaction, SavingsGoal or DailyJournal is
\* created, modified or deleted, whoever sends it.
C21_ReadOnlyCommands ==
  [][\A u \in LineUserIds :
       (ChatAnswered(u) /\ toLowerCase(trim(last'.text)) \in ReadOnlyCommands) =>
         UNCHANGED <<users, groups, categories, transactions, journals, goals>>]_vars

\* C22. Achievements are never retracted: an identifier that a user's
\* achievements hold before a step, whatever request or part of a request
\* the step is, they hold after it.
C22_NeverRetracted ==
  [][\A u \in DOMAIN users :
       /\ u \in DOMAIN users'
       /\ Range(users[u].achievements) \subseteq Range(users'[u].achievements)]_vars

\* a record after a gap reset the streak to 1 while the user holds
\* 'first_record' from the earlier row and 'journal_lover'
C22_Witness ==
  /\ last.op = "POST /api/simulate-line"
  /\ last.outcome = "recorded"
  /\ \E u \in DOMAIN users :
       /\ users[u].streak = 1
       /\ {"first_record", "journal_lover"} \subseteq Range(users[u].achievements)

C24_CompletedFlag ==
  \A g \in DOMAIN goals :
    NumGE(goals[g].currentAmount, goals[g].targetAmount) => goals[g].isCompleted

\* C25. Every stored Transaction has an amount above 0; a step leaves the
\* stored Transactions as they are, or adds one, or deletes one, so that no
\* field of an existing Transaction changes; and a request or message that
\* names the amount 0 or a negative amount stores nothing.
C25_PositiveImmutable ==
  [][/\ \A i \in DOMAIN transactions' :
          ~transactions'[i].amount.nan /\ transactions'[i].amount.units > 0
     /\ \/ transactions' = transactions
        \/ Len(transactions') = Len(transactions) + 1
             /\ SubSeq(transactions', 1, Len(transactions)) = transactions
        \/ \E id \in DOMAIN transactions : transactions' = WithoutTx(id)
     /\ (NamesAmount /\ ~AmountSent.nan /\ AmountSent.units <= 0) =>
          transactions' = transactions]_vars

\* C28. A request PUT /api/categories/:id/budget of user U changes only a
\* category of a group that has U as a member.
C28_BudgetIsolation ==
  [][(today' = today /\ last'.op = "PUT /api/categories/:id/budget") =>
       \A c \in DOMAIN categories :
         categories'[c] # categories[c] =>
           last'.user \in groups[categories[c].groupId].members]_vars

\* C29. Every stored Transaction references a Category of the Transaction's
\* own group, whatever categoryId a client sends and whatever group the user
\* switched to; and DELETE /api/transactions/:id removes at most one
\* Transaction, one of the caller's current group, and leaves the others.
C29_CategoryOfGroup ==
  [][/\ \A i \in DOMAIN transactions' :
          categories'[transactions'[i].categoryId].groupId = transactions'[i].groupId
     /\ (today' = today /\ last'.op = "DELETE /api/transactions/:id") =>
          \/ transactions' = transactions
          \/ \E id \in DOMAIN transactions :
               /\ transactions' = WithoutTx(id)
               /\ transactions[id].groupId = users[last'.user].currentGroupId]_vars

\* C26. First-contact registration is race-free: once the first-contact
\* operations of a user have all finished, whatever their interleaving,
\* there is exactly one Group whose members contain the user, and every
\* Group and every Category's group is the active group of some User.
C26_RegistrationRaceFree ==
  inflight = <<>> =>
    /\ \A u \in DOMAIN users :
         Cardinality({g \in DOMAIN groups : u \in groups[g].members}) = 1
    /\ \A g \in DOMAIN groups : \E u \in DOMAIN users : users[u].currentGroupId = g
    /\ \A c \in DOMAIN categories :
         \E u \in DOMAIN users : users[u].currentGroupId = categories[c].groupId

\* C27. The simulator is equivalent to the loop handler of /webhook on
\* Smart Input: a message that both record leaves, from the same state, the
\* same Transactions and the same User (streak, lastRecordDate and
\* achievements) in both, for every streak value.
C27_SimulatorEquivalent ==
  [][\A u \in LineUserIds :
       (/\ ChatAnswered(u)
        /\ last'.op = "POST /api/simulate-line"
        /\ last'.outcome = "recorded"
        /\ WebhookEvent(DB, today, u, last'.text).outcome = "recorded") =>
         /\ transactions' = WebhookEvent(DB, today, u, last'.text).db.transactions
         /\ users'[u] = WebhookEvent(DB, today, u, last'.text).db.users[u]]_vars

-----------------------------------------------------------------------------
(* POST /api/simulate-line reads todayStr before `await transaction.save()' *)
(* and `yesterday' after it.  Split there as well, midnight and other      *)
(* requests of the user can pass between the two reads.                    *)

\* the streak update of POST /api/simulate-line on the loaded user, with
\* todayStr as it was read before transaction.save() and yesterday as it is
\* read on `day', after it; user.save() is left to the caller
StreakAfterSave(user, todayStr, day) ==
  IF user.lastRecordDate = todayStr THEN user
  ELSE LET Pushed(streak, achs) ==
             [user EXCEPT !.streak = streak, !.lastRecordDate = todayStr,
                          !.achievements = PushIfMissing(achs, "first_record")]
           Raised(streak) ==
             Pushed(streak, IF streak = 7 THEN PushIfMissing(user.achievements, "week_streak")
                            ELSE user.achievements)
       IN  Raised(IF user.lastRecordDate = yesterdayStr(day) THEN user.streak + 1 ELSE 1)

\* the k-th waiting request without it
Without(k) == SubSeq(inflight, 1, k - 1) \o SubSeq(inflight, k + 1, Len(inflight))

\* the handler from the answer of User.findOne up to the answer of
\* transaction.save(): a request that does not record is answered, one that
\* records has saved its Transaction and keeps the todayStr it read
SimulateSave(k) ==
  /\ k \in DOMAIN inflight
  /\ inflight[k].op = "POST /api/simulate-line"
  /\ inflight[k].date = <<>>
  /\ LET Saved(r) ==
           IF r.outcome = "recorded"
           THEN /\ Len(transactions) < MaxTx
                /\ transactions' = r.db.transactions
                /\ inflight' = [inflight EXCEPT ![k].date = getTodayStr(today)]
                /\ UNCHANGED <<today, users, groups, categories, journals, goals, last>>
           ELSE /\ Store("POST /api/simulate-line", inflight[k].user, inflight[k].text, r)
                /\ inflight' = Without(k)
                /\ UNCHANGED today
     IN  Saved(simulateLineFound(DB, today, inflight[k].user, inflight[k].found,
                                 inflight[k].text, "none"))

\* the rest of the handler: the streak update and user.save() on the User
\* that was loaded, and the answer
SimulateStreak(k) ==
  /\ k \in DOMAIN inflight
  /\ inflight[k].op = "POST /api/simulate-line"
  /\ inflight[k].date # <<>>
  /\ users' = [users EXCEPT ![inflight[k].user] =
                 SaveUser(@, inflight[k].found[1],
                          StreakAfterSave(inflight[k].found[1], inflight[k].date, today))]
  /\ last' = [op |-> "POST /api/simulate-line", user |-> inflight[k].user,
              text |-> inflight[k].text, outcome |-> "recorded",
              replies |-> <<Reply("recorded", <<>>)>>, txWrites |-> 1,
              userWrites |-> IF inflight[k].found[1].lastRecordDate # inflight[k].date THEN 1 ELSE 0,
              failed |-> "none"]
  /\ inflight' = Without(k)
  /\ UNCHANGED <<today, groups, categories, transactions, journals, goals>>

\* the server starts against the database of a user who never recorded or
\* of one whose only record is two days old
InitMidnight ==
  Start({SeedDB("U1", [streak |-> 0, lastRecordDate |-> null, achievements |-> <<>>]),
         SeedDB("U1", [streak |-> 1, lastRecordDate |-> FormatDate([Epoch EXCEPT !.d = @ - 2]),
                       achievements |-> <<"first_record">>])})

NextMidnight ==
  \/ \E h \in Headers, text \in {msgFood150, msgHelp} : SimulateFind(h, text)
  \/ \E k \in 1..MaxInflight : SimulateSave(k)
  \/ \E k \in 1..MaxInflight : SimulateStreak(k)
  \/ \E u \in LineUserIds, id \in 1..MaxTx : DeleteTransaction(u, id)
  \/ Tick(MaxRaceDay)

SpecMidnight == InitMidnight /\ [][NextMidnight]_vars

\* the day that a YYYY-MM-DD string names, counted from the epoch
DayNamed(str) ==
  CHOOSE n \in -2..(MaxDay + 1) :
    str = FormatDate(IF n < 0 THEN [Epoch EXCEPT !.d = @ + n] ELSE DateOf(n))

\* C30. For every user, the streak is 0 exactly when lastRecordDate is null
\* and at least 1 exactly when it is set; lastRecordDate never moves to an
\* earlier day; and a streak of n >= 1 stands for a Smart Input record on
\* each of the n days that end at lastRecordDate: the streak and the date
\* change only in the answer to a Smart Input of the user that recorded, the
\* new date is the day of that record, and, no user of InitMidnight having
\* a record on the eve of day 0, the n days never include that eve.
C30_StreakInvariants ==
  /\ [](\A u \in DOMAIN users :
          /\ users[u].streak = 0 <=> users[u].lastRecordDate = null
          /\ users[u].streak >= 1 <=> users[u].lastRecordDate # null)
  /\ [][\A u \in DOMAIN users :
          users[u].lastRecordDate # null =>
            /\ users'[u].lastRecordDate # null
            /\ DayNamed(users'[u].lastRecordDate) >= DayNamed(users[u].lastRecordDate)]_vars
  /\ [][\A u \in DOMAIN users :
          (\/ users'[u].streak # users[u].streak
           \/ users'[u].lastRecordDate # users[u].lastRecordDate) =>
            /\ last'.op = "POST /api/simulate-line"
            /\ last'.user = u
            /\ last'.outcome = "recorded"
            /\ \E k \in DOMAIN inflight :
                 /\ inflight' = Without(k)
                 /\ inflight[k].user = u
                 /\ inflight[k].date = users'[u].lastRecordDate]_vars
  /\ [](\A u \in DOMAIN users :
          users[u].lastRecordDate # null =>
            \A i \in 0..(users[u].streak - 1) :
              DayNamed(users[u].lastRecordDate) - i # -1)

====
